---- MODULE Spec2Model ----
(***************************************************************************)
(* Model of scripts/irr_engine.py: the numeric column parser               *)
(* (safe_number_colval), the retrying HTTP call (http_post_with_retries)   *)
(* and the synchronisation run (main): fetch, per-record metric            *)
(* computation, per-record write.                                          *)
(*                                                                         *)
(* Python strings are modelled as sequences of one-character strings,      *)
(* floats as signed rationals with NaN and the infinities; a value         *)
(* formatted with "{:.2f}" is modelled as its number of hundredths.        *)
(***************************************************************************)
EXTENDS Integers, Sequences, FiniteSets

\* ------------------------------------------------------------------------
\* Bounds of the model
\* ------------------------------------------------------------------------
MaxItems == 3
MaxValLen == 3
MaxTextLen == 2
MaxRerunItems == 2

\* ------------------------------------------------------------------------
\* Python values as they reach the parser
\* ------------------------------------------------------------------------
\* An optional scalar read with dict.get(): None (key absent or null), a
\* string, or some other truthy non-string value (number, list, ...).
PyNone == [k |-> "none", s |-> <<>>]
PyStr(chars) == [k |-> "str", s |-> chars]
PyOther == [k |-> "other", s |-> <<>>]

Truthy(x) == \/ x.k = "other"
             \/ x.k = "str" /\ x.s # <<>>

\* The argument of safe_number_colval: None, a plain string, or a dict
\* (possibly the empty dict) with optional "value" and "text" entries.
\* id is the dict's "id" entry, NoKey when the key is missing.
NoKey == "<nokey>"
ArgNone == [k |-> "none", s |-> <<>>, empty |-> FALSE, id |-> NoKey,
            value |-> PyNone, text |-> PyNone]
ArgStr(chars) == [k |-> "str", s |-> chars, empty |-> FALSE, id |-> NoKey,
                  value |-> PyNone, text |-> PyNone]
ArgEmptyDict == [k |-> "dict", s |-> <<>>, empty |-> TRUE, id |-> NoKey,
                 value |-> PyNone, text |-> PyNone]
ColVal(i, v, t) == [k |-> "dict", s |-> <<>>, empty |-> FALSE, id |-> i,
                    value |-> v, text |-> t]

\* ------------------------------------------------------------------------
\* Python floats
\* ------------------------------------------------------------------------
\* A float is NaN, an infinity, or a finite value of magnitude p/q in
\* lowest terms with its sign bit (so that -0.0 differs from 0.0).  exact
\* tells whether the binary double is p/q itself: it is when every operand
\* was exact and q is a power of 2.  Otherwise the double differs from p/q
\* by the roundings of the operations that made it, a few units in the last
\* place of their operands: a p/q of 0 that is not exact stands for a double
\* that may be a tiny number of either sign.  p and q are integers of the
\* checker, below 2^31.
Abs(n) == IF n < 0 THEN 0 - n ELSE n

RECURSIVE Gcd(_, _)
Gcd(a, b) == IF b = 0 THEN a ELSE Gcd(b, a % b)

RECURSIVE IsPow2(_)
IsPow2(n) == n = 1 \/ (n % 2 = 0 /\ IsPow2(n \div 2))

RECURSIVE Pow10(_)
Pow10(n) == IF n = 0 THEN 1 ELSE 10 * Pow10(n - 1)

NaN == [k |-> "nan", neg |-> FALSE, p |-> 0, q |-> 1, exact |-> TRUE]
Inf(neg) == [k |-> "inf", neg |-> neg, p |-> 0, q |-> 1, exact |-> TRUE]
Fin(neg, p, q, ex) ==
    LET g == Gcd(p, q)
    IN  [k |-> "fin", neg |-> neg, p |-> p \div g, q |-> q \div g,
         exact |-> ex /\ IsPow2(q \div g)]

\* float(n) of a Python int.
IntNum(n) == Fin(n < 0, Abs(n), 1, TRUE)

\* x > 0, x < 0, x == 0 (NaN compares false with everything).
GtZero(x) == \/ x.k = "inf" /\ ~x.neg
             \/ x.k = "fin" /\ ~x.neg /\ x.p > 0
LtZero(x) == \/ x.k = "inf" /\ x.neg
             \/ x.k = "fin" /\ x.neg /\ x.p > 0
IsZero(x) == x.k = "fin" /\ x.p = 0

\* abs(x) and -x.
NAbs(x) == [x EXCEPT !.neg = FALSE]
NNeg(x) == IF x.k = "nan" THEN x ELSE [x EXCEPT !.neg = ~x.neg]

\* x + y.  A zero sum of exact operands is -0.0 only when both are -0.0; a
\* zero sum of rounded operands is not exact.
NAdd(x, y) ==
    CASE x.k = "nan" \/ y.k = "nan" -> NaN
      [] x.k = "inf" /\ y.k = "inf" -> IF x.neg = y.neg THEN x ELSE NaN
      [] x.k = "inf" -> x
      [] y.k = "inf" -> y
      [] OTHER ->
           LET g == Gcd(x.q, y.q)
               sx == IF x.neg THEN 0 - x.p * (y.q \div g)
                     ELSE x.p * (y.q \div g)
               sy == IF y.neg THEN 0 - y.p * (x.q \div g)
                     ELSE y.p * (x.q \div g)
               s == sx + sy
           IN  IF s = 0
               THEN Fin(x.p = 0 /\ y.p = 0 /\ x.neg /\ y.neg, 0, 1,
                        x.exact /\ y.exact)
               ELSE Fin(s < 0, Abs(s), (x.q \div g) * y.q,
                        x.exact /\ y.exact)

NSub(x, y) == NAdd(x, NNeg(y))

\* (a / b) * (c / d), common factors taken out before multiplying.
Ratio(neg, a, b, c, d, ex) ==
    LET g == Gcd(a, d)
        h == Gcd(c, b)
    IN  Fin(neg, (a \div g) * (c \div h), (b \div h) * (d \div g), ex)

\* x * y and x / y, y # 0 (every division of lines 136-147 is guarded by a
\* test that its divisor is greater than 0).
NMul(x, y) ==
    CASE x.k = "nan" \/ y.k = "nan" -> NaN
      [] x.k = "inf" \/ y.k = "inf" ->
           IF IsZero(x) \/ IsZero(y) THEN NaN ELSE Inf(x.neg # y.neg)
      [] OTHER -> Ratio(x.neg # y.neg, x.p, x.q, y.p, y.q, x.exact /\ y.exact)

NDiv(x, y) ==
    CASE x.k = "nan" \/ y.k = "nan" -> NaN
      [] x.k = "inf" /\ y.k = "inf" -> NaN
      [] x.k = "inf" -> Inf(x.neg # y.neg)
      [] y.k = "inf" -> Fin(x.neg # y.neg, 0, 1, TRUE)
      [] OTHER -> Ratio(x.neg # y.neg, x.p, x.q, y.q, y.p, x.exact /\ y.exact)

\* ------------------------------------------------------------------------
\* Character-level conversions
\* ------------------------------------------------------------------------
\* Characters of a string are ASCII characters or stand-ins for the
\* others: OtherDigits[v + 1] for a decimal digit of value v of another
\* script (Arabic-Indic, fullwidth, ...), VtChar for the vertical tab,
\* CtlChar for a control character below U+0020 that is not whitespace,
\* WsChar for a whitespace character above U+007F (U+0085, U+00A0, the
\* Unicode spaces) and OtherChar for any other character.
AsciiDigits == <<"0", "1", "2", "3", "4", "5", "6", "7", "8", "9">>
OtherDigits ==
    <<"<0>", "<1>", "<2>", "<3>", "<4>", "<5>", "<6>", "<7>", "<8>", "<9>">>
VtChar == "<vt>"
CtlChar == "<ctl>"
WsChar == "<ws>"
OtherChar == "<other>"

\* The digits of a JSON number, and the digits float() reads: it takes
\* every Unicode decimal digit for the ASCII digit of its value.
Digits == {AsciiDigits[i] : i \in 1..10}
FloatDigits == Digits \cup {OtherDigits[i] : i \in 1..10}

DigitVal(c) == CHOOSE v \in 0..9 : c \in {AsciiDigits[v + 1], OtherDigits[v + 1]}

RECURSIVE DigitsVal(_)
DigitsVal(s) == IF s = <<>> THEN 0
                ELSE 10 * DigitsVal(SubSeq(s, 1, Len(s) - 1)) + DigitVal(s[Len(s)])

AllDigits(s) == Len(s) >= 1 /\ \A i \in 1..Len(s) : s[i] \in Digits

\* The whitespace float() strips, the whitespace of a JSON document, and
\* the control characters a JSON string may not hold unescaped.
PyWhitespace == {" ", "\t", "\n", "\r", "\f", VtChar, WsChar}
ControlChars == {"\t", "\n", "\r", "\f", VtChar, CtlChar}
JsonWhitespace == {" ", "\t", "\n", "\r"}

RECURSIVE LStrip(_, _)
LStrip(s, ws) == IF s # <<>> /\ s[1] \in ws THEN LStrip(Tail(s), ws) ELSE s

RECURSIVE RStrip(_, _)
RStrip(s, ws) == IF s # <<>> /\ s[Len(s)] \in ws
                 THEN RStrip(SubSeq(s, 1, Len(s) - 1), ws) ELSE s

Strip(s, ws) == RStrip(LStrip(s, ws), ws)

\* text.replace(",", "")
RemoveCommas(s) == SelectSeq(s, LAMBDA c : c # ",")

\* str.lower() on the letters of "infinity" and "nan".
Lower(c) == CASE c = "I" -> "i" [] c = "N" -> "n" [] c = "F" -> "f"
              [] c = "T" -> "t" [] c = "Y" -> "y" [] c = "A" -> "a"
              [] OTHER -> c
LowerSeq(s) == [i \in 1..Len(s) |-> Lower(s[i])]

\* Position of the first character of s that is in set, 0 when none is.
IndexOf(s, set) ==
    LET hits == {i \in 1..Len(s) : s[i] \in set}
    IN  IF hits = {} THEN 0 ELSE CHOOSE i \in hits : \A j \in hits : i <= j

\* Digits with single underscores between them ("1_000").
DigitPart(s) ==
    /\ Len(s) >= 1 /\ s[1] \in FloatDigits /\ s[Len(s)] \in FloatDigits
    /\ \A i \in 1..Len(s) : s[i] \in FloatDigits \cup {"_"}
    /\ \A i \in 1..(Len(s) - 1) : ~(s[i] = "_" /\ s[i + 1] = "_")

NoUnderscores(s) == SelectSeq(s, LAMBDA c : c # "_")

\* A decimal literal split into sign-less integer part, fraction part and
\* exponent: r = ip [. fp] [(e|E) [+|-] edigits].
SplitParts(mant, expo, hasExp, dot, esigned) ==
    [hasExp |-> hasExp, hasDot |-> dot # 0,
     ip |-> IF dot = 0 THEN mant ELSE SubSeq(mant, 1, dot - 1),
     fp |-> IF dot = 0 THEN <<>> ELSE SubSeq(mant, dot + 1, Len(mant)),
     eneg |-> esigned /\ expo[1] = "-",
     edigits |-> IF esigned THEN Tail(expo) ELSE expo]

SplitMantissa(mant, expo, hasExp) ==
    SplitParts(mant, expo, hasExp, IndexOf(mant, {"."}),
               expo # <<>> /\ expo[1] \in {"+", "-"})

SplitAt(r, e) ==
    SplitMantissa(IF e = 0 THEN r ELSE SubSeq(r, 1, e - 1),
                  IF e = 0 THEN <<>> ELSE SubSeq(r, e + 1, Len(r)), e # 0)

Split(r) == SplitAt(r, IndexOf(r, {"e", "E"}))

\* Number of decimal digits of m, 0 < m < 2^31.
NumDigits(m) == CHOOSE n \in 1..10 : Pow10(n - 1) <= m /\ (n = 10 \/ m < Pow10(n))

\* m * 10^scale, m of n digits, is at least 2^1024 - 2^970, half-way
\* between the largest double and 2^1024 (1797693134862315807...e299): it
\* rounds to an infinity.
Overflows(m, n, scale) ==
    \/ n + scale > 309
    \/ n + scale = 309 /\ m > 1797693134 \div Pow10(10 - n)

\* m * 10^scale, m of n digits, is at most 2^-1075, half-way between zero
\* and the smallest double (2470328229206232720...e-342): it rounds to zero.
Underflows(m, n, scale) ==
    \/ n + scale < 0 - 323
    \/ n + scale = 0 - 323 /\ (n = 10 \/ m <= 247032822 \div Pow10(9 - n))

\* The double nearest to m * 10^scale, 0 <= m < 2^31.
DecimalOf(neg, m, n, scale) ==
    CASE Overflows(m, n, scale) -> Inf(neg)
      [] Underflows(m, n, scale) -> Fin(neg, 0, 1, TRUE)
      [] scale >= 0 -> Fin(neg, m * Pow10(scale), 1, TRUE)
      [] OTHER -> Fin(neg, m, Pow10(0 - scale), TRUE)

Decimal(neg, m, scale) ==
    IF m = 0 THEN Fin(neg, 0, 1, TRUE)
    ELSE DecimalOf(neg, m, NumDigits(m), scale)

Failed == [ok |-> FALSE, v |-> IntNum(0)]
Num(x) == [ok |-> TRUE, v |-> x]

\* float(str): surrounding whitespace stripped, an optional sign, then
\* "inf", "infinity" or "nan" in any case, or a decimal literal with an
\* optional fraction and exponent and at least one digit before the
\* exponent (ok = FALSE models ValueError).
WellFormed(d) ==
    /\ d.ip = <<>> \/ DigitPart(d.ip)
    /\ d.fp = <<>> \/ DigitPart(d.fp)
    /\ d.ip # <<>> \/ d.fp # <<>>
    /\ d.hasExp => DigitPart(d.edigits)

Scaled(neg, ip, frac, eneg, ev) ==
    Decimal(neg, DigitsVal(ip \o frac), (IF eneg THEN 0 - ev ELSE ev) - Len(frac))

FloatOfLiteral(neg, d) ==
    IF ~WellFormed(d) THEN Failed
    ELSE Num(Scaled(neg, NoUnderscores(d.ip), NoUnderscores(d.fp), d.eneg,
                    DigitsVal(NoUnderscores(d.edigits))))

FloatOfWord(neg, r, low) ==
    IF low \in {<<"i", "n", "f">>,
                <<"i", "n", "f", "i", "n", "i", "t", "y">>}
    THEN Num(Inf(neg))
    ELSE IF low = <<"n", "a", "n">> THEN Num(NaN)
    ELSE FloatOfLiteral(neg, Split(r))

FloatOfSigned(t, signed) ==
    FloatOfWord(signed /\ t[1] = "-", IF signed THEN Tail(t) ELSE t,
                LowerSeq(IF signed THEN Tail(t) ELSE t))

FloatOfStripped(t) == FloatOfSigned(t, t # <<>> /\ t[1] \in {"+", "-"})

PyFloat(s) == FloatOfStripped(Strip(s, PyWhitespace))

\* The printable ASCII characters, codes 32 to 126 in order (the grave
\* accent, code 96, cannot be written in a string here).
Ascii ==
    <<" ", "!", "\"", "#", "$", "%", "&", "'", "(", ")", "*", "+", ",", "-",
      ".", "/", "0", "1", "2", "3", "4", "5", "6", "7", "8", "9", ":", ";",
      "<", "=", ">", "?", "@", "A", "B", "C", "D", "E", "F", "G", "H", "I",
      "J", "K", "L", "M", "N", "O", "P", "Q", "R", "S", "T", "U", "V", "W",
      "X", "Y", "Z", "[", "\\", "]", "^", "_", OtherChar, "a", "b", "c", "d", "e",
      "f", "g", "h", "i", "j", "k", "l", "m", "n", "o", "p", "q", "r", "s",
      "t", "u", "v", "w", "x", "y", "z", "{", "|", "}", "~">>

HexDigits == Digits \cup {"a", "b", "c", "d", "e", "f",
                          "A", "B", "C", "D", "E", "F"}
HexVal(c) == CASE c \in Digits -> DigitVal(c)
               [] c \in {"a", "A"} -> 10 [] c \in {"b", "B"} -> 11
               [] c \in {"c", "C"} -> 12 [] c \in {"d", "D"} -> 13
               [] c \in {"e", "E"} -> 14 [] OTHER -> 15

\* The code points of the digit zero of the other scripts (Unicode 14);
\* the nine other digits of a script follow its zero.
OtherZeros ==
    {1632, 1776, 1984, 2406, 2534, 2662, 2790, 2918, 3046, 3174, 3302, 3430,
     3558, 3664, 3792, 3872, 4160, 4240, 6112, 6160, 6470, 6608, 6784, 6800,
     6992, 7088, 7232, 7248, 42528, 43216, 43264, 43472, 43504, 43600, 44016,
     65296, 66720, 68912, 69734, 69872, 69942, 70096, 70384, 70736, 70864,
     71248, 71360, 71472, 71904, 72016, 72784, 73040, 73120, 92768, 92864,
     93008, 120782, 120792, 120802, 120812, 120822, 123200, 123632, 125264,
     130032}

\* The character with a given code point.
CharOf(code) ==
    CASE code \in 32..126 -> Ascii[code - 31]
      [] code = 9 -> "\t" [] code = 10 -> "\n"
      [] code = 11 -> VtChar
      [] code = 12 -> "\f" [] code = 13 -> "\r"
      [] code \in 0..31 \ (9..13) -> CtlChar
      [] code \in {133, 160, 5760, 8232, 8233, 8239, 8287, 12288}
                  \cup (8192..8202) -> WsChar
      [] \E z \in OtherZeros : code \in z..(z + 9) ->
           OtherDigits[code - (CHOOSE z \in OtherZeros : code \in z..(z + 9)) + 1]
      [] OTHER -> OtherChar

\* The four hexadecimal digits of s from position i, and their value.
IsHex4(s, i) == Len(s) >= i + 3 /\ \A j \in i..(i + 3) : s[j] \in HexDigits
Hex4(s, i) == 4096 * HexVal(s[i]) + 256 * HexVal(s[i + 1])
              + 16 * HexVal(s[i + 2]) + HexVal(s[i + 3])

\* s opens with the escapes of a surrogate pair: \uD800-\uDBFF and then
\* \uDC00-\uDFFF, which json.loads joins into one character.
IsPair(s) ==
    /\ Hex4(s, 3) \in 55296..56319
    /\ Len(s) >= 12 /\ s[7] = "\\" /\ s[8] = "u" /\ IsHex4(s, 9)
    /\ Hex4(s, 9) \in 56320..57343
Joined(hi, lo) == 65536 + (hi - 55296) * 1024 + (lo - 56320)

\* The character of a one-letter escape.
Escaped(c) == CASE c = "b" -> CtlChar [] c = "f" -> "\f" [] c = "n" -> "\n"
                [] c = "r" -> "\r" [] c = "t" -> "\t" [] OTHER -> c

\* The content of a JSON string literal, between its quotes, decoded: an
\* unescaped quote or control character, a backslash without a valid
\* escape after it, make the document invalid.
Invalid == [ok |-> FALSE, s |-> <<>>]
Then(c, rest) == [ok |-> rest.ok, s |-> <<c>> \o rest.s]
RECURSIVE Unescape(_)
Unescape(s) ==
    IF s = <<>> THEN [ok |-> TRUE, s |-> <<>>]
    ELSE IF s[1] = "\"" \/ s[1] \in ControlChars THEN Invalid
    ELSE IF s[1] # "\\" THEN Then(s[1], Unescape(Tail(s)))
    ELSE IF Len(s) < 2 THEN Invalid
    ELSE IF s[2] = "u"
    THEN IF ~IsHex4(s, 3) THEN Invalid
         ELSE IF IsPair(s)
         THEN Then(CharOf(Joined(Hex4(s, 3), Hex4(s, 9))),
                   Unescape(SubSeq(s, 13, Len(s))))
         ELSE Then(CharOf(Hex4(s, 3)), Unescape(SubSeq(s, 7, Len(s))))
    ELSE IF s[2] \in {"\"", "\\", "/", "b", "f", "n", "r", "t"}
    THEN Then(Escaped(s[2]), Unescape(SubSeq(s, 3, Len(s))))
    ELSE Invalid

\* A JSON number: -? (0 | [1-9] digits) (. digits)? ((e|E) (+|-)? digits)?
JsonNumberParts(d) ==
    /\ AllDigits(d.ip) /\ (Len(d.ip) = 1 \/ d.ip[1] # "0")
    /\ d.hasDot => AllDigits(d.fp)
    /\ d.hasExp => AllDigits(d.edigits)

Unsigned(t) == IF t # <<>> /\ t[1] = "-" THEN Tail(t) ELSE t

\* json.loads(str): the document is one value between optional whitespace.
\* k is "int", "float", "bool" (v holds the number), "str" (s holds the
\* decoded string), "null", "fail" (ValueError), or "nonscalar" for a
\* document that opens an array or an object: json.loads then returns a
\* list or a dict or raises, and float() of a list or a dict raises.
JsonResult(k, v, s) == [k |-> k, v |-> v, s |-> s]
JsonFail == JsonResult("fail", IntNum(0), <<>>)
JsonString(t, inner) ==
    IF Len(t) >= 2 /\ t[Len(t)] = "\"" /\ inner.ok
    THEN JsonResult("str", IntNum(0), inner.s)
    ELSE JsonFail

JsonNumberOf(t, d) ==
    IF ~JsonNumberParts(d) THEN JsonFail
    ELSE IF d.hasDot \/ d.hasExp
    THEN JsonResult("float", PyFloat(t).v, <<>>)
    ELSE JsonResult("int", IntNum(IF t[1] = "-" THEN 0 - DigitsVal(d.ip)
                                  ELSE DigitsVal(d.ip)), <<>>)

JsonValue(t) ==
    CASE t = <<>> -> JsonFail
      [] t # <<>> /\ t[1] = "\"" ->
           JsonString(t, Unescape(SubSeq(t, 2, Len(t) - 1)))
      [] t # <<>> /\ t[1] \in {"[", "{"} ->
           JsonResult("nonscalar", IntNum(0), <<>>)
      [] t = <<"t", "r", "u", "e">> -> JsonResult("bool", IntNum(1), <<>>)
      [] t = <<"f", "a", "l", "s", "e">> -> JsonResult("bool", IntNum(0), <<>>)
      [] t = <<"n", "u", "l", "l">> -> JsonResult("null", IntNum(0), <<>>)
      [] t = <<"N", "a", "N">> -> JsonResult("float", NaN, <<>>)
      [] t = <<"I", "n", "f", "i", "n", "i", "t", "y">> ->
           JsonResult("float", Inf(FALSE), <<>>)
      [] t = <<"-", "I", "n", "f", "i", "n", "i", "t", "y">> ->
           JsonResult("float", Inf(TRUE), <<>>)
      [] OTHER -> JsonNumberOf(t, Split(Unsigned(t)))

JsonLoads(s) == JsonValue(Strip(s, JsonWhitespace))

\* The try block of lines 15-19: float(json.loads(val)); ok = FALSE when any
\* exception was swallowed.  A non-string val makes json.loads raise
\* TypeError; float() of None, of a list or of a dict raises TypeError.
FloatOfJson(j) ==
    CASE j.k \in {"int", "float", "bool"} -> Num(j.v)
      [] j.k = "str" -> PyFloat(j.s)
      [] OTHER -> Failed

DecodeValue(val) ==
    IF val.k # "str" THEN Failed ELSE FloatOfJson(JsonLoads(val.s))

\* Lines 20-24: float(text.replace(",", "")) if text else 0.0, any
\* exception (ValueError, AttributeError on a non-string) giving 0.0.
OrZero(f) == IF f.ok THEN f ELSE Num(IntNum(0))

DecodeText(text) ==
    IF ~Truthy(text) THEN Num(IntNum(0))
    ELSE IF text.k # "str" THEN Num(IntNum(0))
    ELSE OrZero(PyFloat(RemoveCommas(text.s)))

\* safe_number_colval: raised = TRUE when an exception escapes the call
\* (column_value.get on a non-empty plain string: AttributeError).
Returned(x) == [raised |-> FALSE, v |-> x]
Raised == [raised |-> TRUE, v |-> IntNum(0)]

ValueOrText(cv, dv) ==
    IF dv.ok THEN Returned(dv.v) ELSE Returned(DecodeText(cv.text).v)

safe_number_colval(cv) ==
    IF cv.k = "none" \/ (cv.k = "str" /\ cv.s = <<>>) \/ (cv.k = "dict" /\ cv.empty)
    THEN Returned(IntNum(0))
    ELSE IF cv.k = "str" THEN Raised
    ELSE ValueOrText(cv, IF Truthy(cv.value) THEN DecodeValue(cv.value)
                         ELSE Failed)

\* ------------------------------------------------------------------------
\* Records of the store and the field-identifier mapping (lines 92-116)
\* ------------------------------------------------------------------------
COL_NOI == "numeric_mkxam1rv"
COL_TOTAL_PROJECT_COST == "numeric_mkx8vtv"
COL_LOAN_AMOUNT == "numeric_mkx856za"
COL_MARKET_CAP_RATE == "numeric_mkxam49"
COL_EXIT_CAP_RATE == "numeric_mkxarhhr"
COL_YEAR_1_CF == "numeric_mkxary42"
COL_EQUITY_INVESTMENT == "numeric_mkxapdxt"
COL_CAP_RATE == "numeric_mkxasdx8"
COL_LTV == "numeric_mkxa901y"
COL_YIELD_ON_COST == "numeric_mkxagcrj"
COL_SPREAD == "numeric_mkxa1nb4"
COL_REVERSION_VALUE == "numeric_mkxaacq4"
COL_CASH_ON_CASH == "numeric_mkxahsqj"
COL_IRR == "numeric_mkxav001"
COL_EQUITY_MULTIPLE == "numeric_mkxag7qd"
COL_YEAR_2_CF == "numeric_mkxavbzw"
COL_YEAR_3_CF == "numeric_mkxadz1f"
COL_YEAR_4_CF == "numeric_mkxasbp9"
COL_YEAR_5_CF == "numeric_mkxarrfz"
COL_SALE_PROCEEDS == "numeric_mkxaaxrp"

OutputCols == {COL_CAP_RATE, COL_LTV, COL_YIELD_ON_COST, COL_SPREAD,
               COL_REVERSION_VALUE, COL_CASH_ON_CASH, COL_IRR,
               COL_EQUITY_MULTIPLE}

\* item["column_values"]: a list of column entries, JSON null, or the key
\* missing altogether.
CvList(l) == [k |-> "list", l |-> l]
CvNull == [k |-> "null", l |-> <<>>]
CvMissing == [k |-> "missing", l |-> <<>>]

Item(i, n, cvs) == [id |-> i, name |-> n, column_values |-> cvs]

\* item.get("column_values", []) at line 119
ColumnEntries(item) ==
    IF item.column_values.k = "missing" THEN CvList(<<>>) ELSE item.column_values

\* Line 119, {c["id"]: c for c in ...}: iterating None raises TypeError, an
\* entry without "id" raises KeyError.
CvDictRaises(item) ==
    LET e == ColumnEntries(item)
    IN  \/ e.k = "null"
        \/ \E i \in 1..Len(e.l) : e.l[i].id = NoKey

\* cv_dict.get(col): the last entry carrying that id, or None.
CvGet(item, col) ==
    LET l == ColumnEntries(item).l
        hits == {i \in 1..Len(l) : l[i].id = col}
    IN  IF hits = {} THEN ArgNone
        ELSE l[CHOOSE i \in hits : \A j \in hits : j <= i]

\* ------------------------------------------------------------------------
\* Binary doubles
\* ------------------------------------------------------------------------
\* A natural number of any size is a sequence of digits in base 2^14, least
\* significant first, without leading zero digits (<<>> is 0); a double is
\* a sign, a mantissa m of at most 53 bits (or 2^53, after a rounding that
\* carried) and an exponent e of at least -1074, of value m * 2^e below
\* 2^1024.
Base == 16384
LimbBits == 14

RECURSIVE Pow2(_)
Pow2(n) == IF n = 0 THEN 1 ELSE 2 * Pow2(n - 1)

RECURSIVE Limbs(_)
Limbs(n) == IF n = 0 THEN <<>> ELSE <<n % Base>> \o Limbs(n \div Base)

LimbAt(a, i) == IF i \in 1..Len(a) THEN a[i] ELSE 0

LNorm(a) ==
    LET used == {i \in 1..Len(a) : a[i] # 0}
    IN  IF used = {} THEN <<>>
        ELSE SubSeq(a, 1, CHOOSE i \in used : \A j \in used : j <= i)

\* The value of a number as an integer of the checker (below 2^31).
RECURSIVE LToInt(_)
LToInt(a) == IF a = <<>> THEN 0 ELSE a[1] + Base * LToInt(Tail(a))

LLess(a, b) ==
    IF Len(a) # Len(b) THEN Len(a) < Len(b)
    ELSE \E i \in 1..Len(a) :
            a[i] < b[i] /\ \A j \in (i + 1)..Len(a) : a[j] = b[j]

RECURSIVE LAddFrom(_, _, _, _)
LAddFrom(a, b, i, c) ==
    IF i > Len(a) /\ i > Len(b) THEN (IF c = 0 THEN <<>> ELSE <<c>>)
    ELSE LET s == LimbAt(a, i) + LimbAt(b, i) + c
         IN  <<s % Base>> \o LAddFrom(a, b, i + 1, s \div Base)
LAdd(a, b) == LAddFrom(a, b, 1, 0)

\* a - b for a >= b.
RECURSIVE LSubFrom(_, _, _, _)
LSubFrom(a, b, i, c) ==
    IF i > Len(a) THEN <<>>
    ELSE LET s == a[i] - LimbAt(b, i) - c
         IN  IF s < 0 THEN <<s + Base>> \o LSubFrom(a, b, i + 1, 1)
             ELSE <<s>> \o LSubFrom(a, b, i + 1, 0)
LSub(a, b) == LNorm(LSubFrom(a, b, 1, 0))

\* a * k for 0 <= k <= 2^14.
RECURSIVE LScaleFrom(_, _, _, _)
LScaleFrom(a, k, i, c) ==
    IF i > Len(a) THEN (IF c = 0 THEN <<>> ELSE <<c>>)
    ELSE LET s == a[i] * k + c
         IN  <<s % Base>> \o LScaleFrom(a, k, i + 1, s \div Base)
LScale(a, k) == LNorm(LScaleFrom(a, k, 1, 0))

\* a * 2^n and the integer part of a / 2^n.
LShl(a, n) ==
    IF a = <<>> THEN a
    ELSE LScale([i \in 1..(n \div LimbBits) |-> 0] \o a, Pow2(n % LimbBits))
LShr(a, n) ==
    LET q == n \div LimbBits
        r == n % LimbBits
    IN  LNorm([j \in 1..(Len(a) - q) |->
                  (a[j + q] \div Pow2(r))
                  + (LimbAt(a, j + q + 1) % Pow2(r)) * Pow2(LimbBits - r)])

RECURSIVE LMulFrom(_, _, _)
LMulFrom(a, b, j) ==
    IF j > Len(b) THEN <<>>
    ELSE LAdd([i \in 1..(j - 1) |-> 0] \o LScale(a, b[j]), LMulFrom(a, b, j + 1))
LMul(a, b) == LNorm(LMulFrom(a, b, 1))

\* Number of bits of a, bit i of a (bit 0 is the lowest), and whether the
\* n lowest bits of a are all 0.
BitLen(a) ==
    IF a = <<>> THEN 0
    ELSE LimbBits * (Len(a) - 1)
         + (CHOOSE w \in 1..LimbBits :
               Pow2(w - 1) <= a[Len(a)] /\ a[Len(a)] < Pow2(w))
BitAt(a, i) == (LimbAt(a, i \div LimbBits + 1) \div Pow2(i % LimbBits)) % 2
LowZero(a, n) ==
    /\ \A j \in 1..(n \div LimbBits) : LimbAt(a, j) = 0
    /\ LimbAt(a, n \div LimbBits + 1) % Pow2(n % LimbBits) = 0

\* The number whose binary digits, most significant first, are b.
RECURSIVE BitsVal(_)
BitsVal(b) == IF b = <<>> THEN 0
              ELSE 2 * BitsVal(SubSeq(b, 1, Len(b) - 1)) + b[Len(b)]
FromBits(b) ==
    LET L == Len(b)
        n == (L + LimbBits - 1) \div LimbBits
        lo(j) == IF L - LimbBits * j + 1 < 1 THEN 1 ELSE L - LimbBits * j + 1
    IN  LNorm([j \in 1..n |-> BitsVal(SubSeq(b, lo(j), L - LimbBits * (j - 1)))])

\* One step of the long division of d by q: the remainder takes bit i of d
\* and gives a quotient bit.
DivStep(rem, d, q, i) ==
    LET r == LAdd(LScale(rem, 2), Limbs(BitAt(d, i)))
    IN  IF LLess(r, q) THEN [rem |-> r, bit |-> 0]
        ELSE [rem |-> LSub(r, q), bit |-> 1]

\* The quotient bits for bits i down to 0 of d, most significant first and
\* two at a time, and the final remainder.
RECURSIVE DivBits(_, _, _, _)
DivBits(rem, d, q, i) ==
    IF i < 0 THEN [bits |-> <<>>, rem |-> rem]
    ELSE LET s1 == DivStep(rem, d, q, i)
             s2 == DivStep(s1.rem, d, q, i - 1)
             rest == DivBits(s2.rem, d, q, i - 2)
         IN  [bits |-> <<s1.bit, s2.bit>> \o rest.bits, rem |-> rest.rem]

DNaN == [k |-> "nan", neg |-> FALSE, m |-> <<>>, e |-> 0]
DInf(neg) == [k |-> "inf", neg |-> neg, m |-> <<>>, e |-> 0]
DZero(neg) == [k |-> "fin", neg |-> neg, m |-> <<>>, e |-> 0]

\* In place of a value: ZeroDivisionError, raised by a division by 0.0.
DRaise == [k |-> "raise", neg |-> FALSE, m |-> <<>>, e |-> 0]

\* The double of mantissa m and exponent e, or what takes its place outside
\* the range of doubles: an infinity from 2^1024 on.
Ranged(neg, m, e) ==
    IF m = <<>> THEN DZero(neg)
    ELSE IF BitLen(m) + e > 1024 THEN DInf(neg)
    ELSE [k |-> "fin", neg |-> neg, m |-> m, e |-> e]

\* The number of low bits p * 2^e2 loses: those beyond the 53 of a mantissa
\* and those below 2^-1074, the smallest double.
Dropped(p, e2) ==
    IF BitLen(p) - 53 > (0 - 1074) - e2 THEN BitLen(p) - 53
    ELSE (0 - 1074) - e2

RoundDropping(neg, p, e2, drop) ==
    IF drop <= 0 THEN Ranged(neg, p, e2)
    ELSE Ranged(neg,
                IF /\ BitAt(p, drop - 1) = 1
                   /\ (~LowZero(p, drop - 1) \/ BitAt(p, drop) = 1)
                THEN LAdd(LShr(p, drop), <<1>>) ELSE LShr(p, drop),
                e2 + drop)

\* The double nearest to p * 2^e2, a tie going to the even mantissa.
RoundInt(neg, p, e2) == RoundDropping(neg, p, e2, Dropped(p, e2))

\* The number of leading bits of b * 2^e a double keeps: 53, fewer when the
\* value is below 2^-1022, none below 2^-1074.
Keep(b, e) ==
    IF Len(b) + e + 1074 < 53 THEN Len(b) + e + 1074 ELSE 53

RoundKeeping(neg, b, rem, e, keep) ==
    IF keep < 0 THEN DZero(neg)
    ELSE Ranged(neg,
                IF /\ b[keep + 1] = 1
                   /\ \/ rem # <<>>
                      \/ \E i \in (keep + 2)..Len(b) : b[i] = 1
                      \/ keep >= 1 /\ b[keep] = 1
                THEN LAdd(FromBits(SubSeq(b, 1, keep)), <<1>>)
                ELSE FromBits(SubSeq(b, 1, keep)),
                e + (Len(b) - keep))

\* The double nearest to (p / q) * 2^e2 for p and q of at most 54 bits: p
\* is shifted left by s bits so that 56 or 57 bits of the quotient are
\* produced; b holds them from the first 1 on, rem is the remainder; the
\* bits kept are rounded by the rest and the remainder.
RoundBits(neg, b, rem, e) == RoundKeeping(neg, b, rem, e, Keep(b, e))

RoundDivided(neg, r, e) ==
    RoundBits(neg, IF r.bits[1] = 0 THEN Tail(r.bits) ELSE r.bits, r.rem, e)

QuotBits(d, q) == DivBits(LShr(d, BitLen(d) - (BitLen(q) - 1)), d, q, 55)

RoundShifted(neg, p, q, e2, s) ==
    RoundDivided(neg, QuotBits(LShl(p, s), q), e2 - s)

RoundQuot(neg, p, q, e2) ==
    RoundShifted(neg, p, q, e2, BitLen(q) + 55 - BitLen(p))

RoundWhole(neg, p, e2) ==
    IF p = <<>> THEN DZero(neg) ELSE RoundInt(neg, p, e2)

Round(neg, p, q, e2) ==
    IF p = <<>> \/ q = <<1>> THEN RoundWhole(neg, p, e2)
    ELSE RoundQuot(neg, p, q, e2)

\* The double of a parsed number: the nearest one to the literal's value.
Dbl(x) == CASE x.k = "nan" -> DNaN
            [] x.k = "inf" -> DInf(x.neg)
            [] OTHER -> Round(x.neg, Limbs(x.p), Limbs(x.q), 0)

DIsZero(a) == a.k = "fin" /\ a.m = <<>>

SMul(a, b) ==
    CASE a.k = "raise" \/ b.k = "raise" -> DRaise
      [] a.k = "nan" \/ b.k = "nan" -> DNaN
      [] a.k = "inf" \/ b.k = "inf" ->
           IF DIsZero(a) \/ DIsZero(b) THEN DNaN ELSE DInf(a.neg # b.neg)
      [] OTHER -> RoundWhole(a.neg # b.neg, LMul(a.m, b.m), a.e + b.e)

\* a / b: float division by zero raises whatever a is.
SDiv(a, b) ==
    CASE a.k = "raise" \/ b.k = "raise" \/ DIsZero(b) -> DRaise
      [] a.k = "nan" \/ b.k = "nan" -> DNaN
      [] a.k = "inf" /\ b.k = "inf" -> DNaN
      [] a.k = "inf" -> DInf(a.neg # b.neg)
      [] b.k = "inf" -> DZero(a.neg # b.neg)
      [] OTHER -> Round(a.neg # b.neg, a.m, b.m, a.e - b.e)

SNeg(a) == IF a.k \in {"nan", "raise"} THEN a ELSE [a EXCEPT !.neg = ~a.neg]

\* The sum of two finite non-zero doubles whose mantissas, brought to the
\* common exponent e, are x and y.
SAddAligned(a, b, x, y, e) ==
    IF a.neg # b.neg /\ x = y THEN DZero(FALSE)
    ELSE RoundWhole(IF a.neg = b.neg \/ LLess(y, x) THEN a.neg ELSE b.neg,
                    IF a.neg = b.neg THEN LAdd(x, y)
                    ELSE IF LLess(x, y) THEN LSub(y, x) ELSE LSub(x, y), e)

SAddAt(a, b, e) == SAddAligned(a, b, LShl(a.m, a.e - e), LShl(b.m, b.e - e), e)

SAdd(a, b) ==
    CASE a.k = "raise" \/ b.k = "raise" -> DRaise
      [] a.k = "nan" \/ b.k = "nan" -> DNaN
      [] a.k = "inf" /\ b.k = "inf" -> IF a.neg = b.neg THEN a ELSE DNaN
      [] a.k = "inf" -> a
      [] b.k = "inf" -> b
      [] DIsZero(a) /\ DIsZero(b) -> DZero(a.neg /\ b.neg)
      [] DIsZero(a) -> b
      [] DIsZero(b) -> a
      \* an operand whose leading bit lies more than 64 places below the
      \* other's is under a quarter of its last place: the sum rounds to it
      [] BitLen(a.m) + a.e > BitLen(b.m) + b.e + 64 -> a
      [] BitLen(b.m) + b.e > BitLen(a.m) + a.e + 64 -> b
      [] OTHER -> SAddAt(a, b, IF a.e < b.e THEN a.e ELSE b.e)

\* ------------------------------------------------------------------------
\* Metric computation (lines 122-166)
\* ------------------------------------------------------------------------
\* Lines 122-133: one parsed input, safe_number_colval(cv_dict.get(col)).
Parsed(item, col) == safe_number_colval(CvGet(item, col))

InputCols == {COL_NOI, COL_TOTAL_PROJECT_COST, COL_LOAN_AMOUNT,
              COL_MARKET_CAP_RATE, COL_EXIT_CAP_RATE, COL_YEAR_1_CF,
              COL_EQUITY_INVESTMENT, COL_YEAR_2_CF, COL_YEAR_3_CF,
              COL_YEAR_4_CF, COL_YEAR_5_CF, COL_SALE_PROCEEDS}

\* Does one of the twelve parses of lines 122-133 raise?
ExtractRaises(item) == \E c \in InputCols : Parsed(item, c).raised

noi(item) == Parsed(item, COL_NOI).v
total_project_cost(item) == Parsed(item, COL_TOTAL_PROJECT_COST).v
loan_amount(item) == Parsed(item, COL_LOAN_AMOUNT).v
market_cap_rate(item) == Parsed(item, COL_MARKET_CAP_RATE).v
exit_cap_rate(item) == Parsed(item, COL_EXIT_CAP_RATE).v
year_1_cf(item) == Parsed(item, COL_YEAR_1_CF).v

\* The parsed equity field used as it stands, sign included.
EquityNoAbs(item) == Parsed(item, COL_EQUITY_INVESTMENT).v

\* Line 128: abs(...) of the parsed equity field.
equity_investment(item) == NAbs(Parsed(item, COL_EQUITY_INVESTMENT).v)

\* Line 144.
Cashflows(item) ==
    <<NNeg(equity_investment(item)), year_1_cf(item),
      Parsed(item, COL_YEAR_2_CF).v, Parsed(item, COL_YEAR_3_CF).v,
      Parsed(item, COL_YEAR_4_CF).v,
      NAdd(Parsed(item, COL_YEAR_5_CF).v, Parsed(item, COL_SALE_PROCEEDS).v)>>

\* sum(cashflows[from:]), the additions starting from the int 0.
Sum(cf, from) ==
    LET RECURSIVE S(_)
        S(i) == IF i < from THEN IntNum(0) ELSE NAdd(S(i - 1), cf[i])
    IN  S(Len(cf))

\* Number of sign changes along the non-zero entries of a finite vector.
NonZero(cf) == SelectSeq(cf, LAMBDA x : ~IsZero(x))
SignChanges(cf) ==
    LET z == NonZero(cf)
    IN  Cardinality({i \in 1..(Len(z) - 1) : z[i].neg # z[i + 1].neg})

\* Lines 145-146, npf.irr(cashflows): NaN when the polynomial
\* sum cf[t] x^t has no real root x > 0, else the rate 1/x - 1 nearest 0.
\* No sign change: no positive root.  One sign change: exactly one, simple,
\* positive root.  More: roots may or may not exist (or be found).
\* x = 1, the rate 0, is a root exactly when the entries sum to 0; the
\* library then returns 0.0 ("zero") or a rate a rounding error away from
\* it ("rate").
\* With an entry that is NaN or infinite the roots are the eigenvalues of
\* the companion matrix of the entries from the first to the last non-zero
\* one, its first row being the other entries over the last: no root (NaN)
\* when a single entry is left or when the last is infinite and the others
\* are finite, else the eigenvalue routine rejects the matrix ("raise").
IrrOutcomes(cf) ==
    LET found == IF IsZero(Sum(cf, 1)) THEN {"zero", "rate"} ELSE {"rate"}
        z == NonZero(cf)
        lead == z[Len(z)]
    IN  IF \A i \in 1..Len(cf) : cf[i].k = "fin"
        THEN CASE SignChanges(cf) = 0 -> {"nan"}
               [] SignChanges(cf) = 1 -> found
               [] OTHER -> {"nan"} \cup found
        ELSE IF Len(z) = 1 THEN {"nan"}
        ELSE IF lead.k = "inf" /\ \A i \in 1..(Len(z) - 1) : z[i].k = "fin"
        THEN {"nan"}
        ELSE {"raise"}

\* Line 145 raises: the exception is the record's (lines 189-190).
IrrRaises(irr) == irr = "raise"

\* A truthiness test of the cost in place of the comparison with 0.
CostNonZero(item) == ~IsZero(total_project_cost(item))

\* Only None tested at line 146, NaN let through.
IrrNotNone(irr) == TRUE

\* Lines 136-141, 146-147: each metric's presence test.
HasCostMetrics(item) == GtZero(total_project_cost(item))

\* The spread computed whenever yield_on_cost is, the market rate not tested.
SpreadOnCostOnly(item) == HasCostMetrics(item)

HasSpread(item) == HasCostMetrics(item) /\ GtZero(market_cap_rate(item))

\* The reversion value computed only for a record that holds none yet.
ReversionIfEmpty(item) ==
    GtZero(exit_cap_rate(item)) /\ CvGet(item, COL_REVERSION_VALUE) = ArgNone

HasReversion(item) == GtZero(exit_cap_rate(item))

\* Line 140: exit_cap_rate / 100 is 0.0 for a positive rate so small that
\* the quotient is below the smallest double, and noi / 0.0 raises
\* ZeroDivisionError.  The quotient of a rate of 1 or more is 0.01 or more,
\* and that of an infinite rate is infinite: neither is divided here.
ReversionRaises(item) ==
    /\ HasReversion(item)
    /\ exit_cap_rate(item).k = "fin"
    /\ exit_cap_rate(item).p < exit_cap_rate(item).q
    /\ DIsZero(SDiv(Dbl(exit_cap_rate(item)), Dbl(IntNum(100))))

\* Lines 122-141: does the try block raise before npf.irr is called?
ComputeRaises(item) == ExtractRaises(item) \/ ReversionRaises(item)

\* The test of lines 141 and 147 applied to the equity before abs().
EquityPositiveRaw(item) == GtZero(Parsed(item, COL_EQUITY_INVESTMENT).v)

HasEquityMetrics(item) == GtZero(equity_investment(item))

\* A truthiness test of irr_value at line 163.
IrrTruthy(irr) == irr \notin {"nan", "zero"}

HasIrr(irr) == irr # "nan"

\* Lines 136-147: the value of a metric whose presence test holds, as a
\* rational.
MetricValue(item, c) ==
    LET tpc == total_project_cost(item)
        eq == equity_investment(item)
        hundred == IntNum(100)
        yield_on_cost == NMul(NDiv(noi(item), tpc), hundred)
    IN  CASE c = COL_CAP_RATE -> NMul(NDiv(noi(item), tpc), hundred)
          [] c = COL_LTV -> NMul(NDiv(loan_amount(item), tpc), hundred)
          [] c = COL_YIELD_ON_COST -> yield_on_cost
          [] c = COL_SPREAD -> NSub(yield_on_cost, market_cap_rate(item))
          [] c = COL_REVERSION_VALUE ->
               NDiv(noi(item), NDiv(exit_cap_rate(item), hundred))
          [] c = COL_CASH_ON_CASH -> NMul(NDiv(year_1_cf(item), eq), hundred)
          [] OTHER -> NDiv(Sum(Cashflows(item), 2), eq)

\* The same expressions in binary floating point, every operation rounded.
\* d holds the double of each parsed input, eq the double of the equity
\* of line 128.
Percent(a, b) == SMul(SDiv(a, b), Dbl(IntNum(100)))

Inflow(d) ==
    SAdd(SAdd(SAdd(SAdd(SAdd(DZero(FALSE), d[COL_YEAR_1_CF]),
                        d[COL_YEAR_2_CF]), d[COL_YEAR_3_CF]),
              d[COL_YEAR_4_CF]),
         SAdd(d[COL_YEAR_5_CF], d[COL_SALE_PROCEEDS]))

DoubleOf(c, d, eq) ==
    CASE c = COL_CAP_RATE -> Percent(d[COL_NOI], d[COL_TOTAL_PROJECT_COST])
      [] c = COL_LTV -> Percent(d[COL_LOAN_AMOUNT], d[COL_TOTAL_PROJECT_COST])
      [] c = COL_YIELD_ON_COST ->
           Percent(d[COL_NOI], d[COL_TOTAL_PROJECT_COST])
      [] c = COL_SPREAD ->
           SAdd(Percent(d[COL_NOI], d[COL_TOTAL_PROJECT_COST]),
                SNeg(d[COL_MARKET_CAP_RATE]))
      [] c = COL_REVERSION_VALUE ->
           SDiv(d[COL_NOI], SDiv(d[COL_EXIT_CAP_RATE], Dbl(IntNum(100))))
      [] c = COL_CASH_ON_CASH -> Percent(d[COL_YEAR_1_CF], eq)
      [] OTHER -> SDiv(Inflow(d), eq)

MetricDouble(item, c) ==
    DoubleOf(c, [col \in InputCols |-> Dbl(Parsed(item, col).v)],
             Dbl(equity_investment(item)))

\* A value of the output map: the text "{:.2f}" makes of a float, kept as
\* its signed number of hundredths h, with negzero for the sign printed
\* before a zero ("-0.00"), or "nan", "inf", "-inf"; for the library's
\* rate times 100 the text is 0.00 for the rate 0 and left open otherwise.
Shown(what, h, negzero) ==
    [fmt |-> "2f", of |-> what, h |-> h, negzero |-> negzero]
Fixed2(h) == Shown("quotient", h, FALSE)
Signed2(neg, mag) ==
    Shown("quotient", IF neg THEN 0 - mag ELSE mag, neg /\ mag = 0)
IrrText(irr) ==
    Shown(IF irr = "zero" THEN "irr*100 = 0" ELSE "irr*100", 0, FALSE)

\* "{:.2f}" of a double: the nearest hundredth to its exact binary value,
\* an exact tie going to the even neighbour.
DFormat2(d) ==
    LET n == LScale(d.m, 100)
        cut == 0 - d.e
        q == IF cut <= 0 THEN LToInt(LShl(n, d.e)) ELSE LToInt(LShr(n, cut))
        half == cut > 0 /\ BitAt(n, cut - 1) = 1
        sticky == cut > 0 /\ ~LowZero(n, cut - 1)
    IN  CASE d.k = "nan" -> Shown("nan", 0, FALSE)
          [] d.k = "inf" -> Shown(IF d.neg THEN "-inf" ELSE "inf", 0, FALSE)
          [] OTHER ->
               Signed2(d.neg, IF half /\ (sticky \/ q % 2 = 1) THEN q + 1 ELSE q)

\* Number of binary digits of a natural number.
RECURSIVE Width(_)
Width(n) == IF n = 0 THEN 0 ELSE 1 + Width(n \div 2)

\* An exponent e with |x| < 2^e and one with 1 / |x| < 2^e, x finite.
Below(x) == Width(x.p) - Width(x.q) + 1
InverseBelow(x) == Width(x.q) - Width(x.p) + 1

Larger(a, b) == IF a < b THEN b ELSE a

\* How far the double of a metric may lie from its rational value x: less
\* than 2^(e - 48) for the e given here.  Every parse and every operation
\* rounds by at most 2^-53 of its result.  A quotient times 100 and the
\* reversion value are within 2^-50 of x in proportion to x; the spread
\* within 2^-50 of yield_on_cost + market_cap_rate, which is at most
\* |x| + 2 * market_cap_rate; the equity multiple within 2^-49 of the sum
\* of the magnitudes of the six inflows divided by the equity.
ErrorExponent(item, c, x) ==
    CASE c = COL_SPREAD ->
           Larger(Below(x), Below(market_cap_rate(item)) + 1) + 1
      [] c = COL_EQUITY_MULTIPLE ->
           Larger(Larger(Larger(Below(Parsed(item, COL_YEAR_1_CF).v),
                                Below(Parsed(item, COL_YEAR_2_CF).v)),
                         Larger(Below(Parsed(item, COL_YEAR_3_CF).v),
                                Below(Parsed(item, COL_YEAR_4_CF).v))),
                  Larger(Below(Parsed(item, COL_YEAR_5_CF).v),
                         Below(Parsed(item, COL_SALE_PROCEEDS).v)))
           + 3 + InverseBelow(equity_investment(item))
      [] OTHER -> Below(x)

\* Twice the distance, in units of 1 / x.q, of 100 * x from the nearest
\* tie between two hundredths.
TieGap(x) == Abs(2 * ((x.p * 100) % x.q) - x.q)

\* "{:.2f}" of a float is decided by its rational value x when the double
\* is x, or lies within 2^(e - 48) of x and that is less than the distance
\* of x from zero and from the nearest tie between two hundredths: the
\* double then has the sign of x and rounds to the same hundredth.
Near(x, e, gap) ==
    /\ x.p > 0 /\ gap > 0
    /\ e + Width(x.q) - Width(x.p) <= 47
    /\ e + Width(x.q) - Width(gap) <= 39

Decides(x, e) == x.k # "fin" \/ x.exact \/ Near(x, e, TieGap(x))

\* The nearest hundredth to n / q, a tie going to the even neighbour.
Nearest(n, q) ==
    IF 2 * (n % q) < q THEN n \div q
    ELSE IF 2 * (n % q) > q THEN n \div q + 1
    ELSE IF (n \div q) % 2 = 0 THEN n \div q ELSE n \div q + 1

\* "{:.2f}" of a float whose rational value x decides.
Format2(x) ==
    CASE x.k = "nan" -> Shown("nan", 0, FALSE)
      [] x.k = "inf" -> Shown(IF x.neg THEN "-inf" ELSE "inf", 0, FALSE)
      [] OTHER -> Signed2(x.neg, Nearest(x.p * 100, x.q))

\* Lines 152-166: the text of a metric, from the rational when it decides
\* and else from the double.
TextOf(item, c, x) ==
    IF Decides(x, ErrorExponent(item, c, x)) THEN Format2(x)
    ELSE DFormat2(MetricDouble(item, c))

MetricText(item, c) == TextOf(item, c, MetricValue(item, c))

\* Lines 136-166: the output field map, given the library's IRR outcome.
ColumnValues(item, irr) ==
    LET present ==
            (IF HasCostMetrics(item)
             THEN {COL_CAP_RATE, COL_LTV, COL_YIELD_ON_COST} ELSE {})
            \cup (IF HasSpread(item) THEN {COL_SPREAD} ELSE {})
            \cup (IF HasReversion(item) THEN {COL_REVERSION_VALUE} ELSE {})
            \cup (IF HasEquityMetrics(item)
                  THEN {COL_CASH_ON_CASH, COL_EQUITY_MULTIPLE} ELSE {})
            \cup (IF HasIrr(irr) THEN {COL_IRR} ELSE {})
    IN  [c \in present |->
           IF c = COL_IRR THEN IrrText(irr)
           ELSE MetricText(item, c)]

\* Lines 120-178: does the body of the try block raise before the write?
\* A parse or the division of line 140 that raises, item['id'] (line 171)
\* on an item without id, and in dry-run mode item['name'] (line 178) on an
\* item without name.
TryRaises(item, dry) ==
    \/ ComputeRaises(item)
    \/ item.id = NoKey
    \/ dry /\ item.name = NoKey

\* ------------------------------------------------------------------------
\* The fetch response (lines 78-90)
\* ------------------------------------------------------------------------
\* A response body: not JSON at all, or a JSON object whose "data" entry is
\* missing, null or an object holding "boards"; a board's "groups" entry is
\* missing or a list; a group's "items" entry is missing, null or a list.
Group(k, l) == [items |-> [k |-> k, l |-> l]]
Board(k, gs) == [groups |-> [k |-> k, l |-> gs]]
Body(js, d, bs) == [json |-> js, data |-> d, boards |-> bs]

RespNotJson == Body(FALSE, "missing", <<>>)
RespNoData == Body(TRUE, "missing", <<>>)
RespDataNull == Body(TRUE, "null", <<>>)
RespNoBoards == Body(TRUE, "obj", <<>>)
RespNoGroupsKey == Body(TRUE, "obj", <<Board("missing", <<>>)>>)
RespNoGroups == Body(TRUE, "obj", <<Board("list", <<>>)>>)
RespNoItemsKey == Body(TRUE, "obj", <<Board("list", <<Group("missing", <<>>)>>)>>)
RespItemsNull == Body(TRUE, "obj", <<Board("list", <<Group("null", <<>>)>>)>>)
RespItems(l) == Body(TRUE, "obj", <<Board("list", <<Group("list", l)>>)>>)

\* Lines 78-90: what main does with the response of the fetch.  "raise" is
\* an exception that leaves main (resp.json() on a non-JSON body, .get on a
\* null data payload, iterating null items at line 118), "no_records" the
\* early return of lines 83-89.
ParseFetch(body) ==
    IF ~body.json THEN [result |-> "raise", items |-> <<>>]
    ELSE IF body.data = "null" THEN [result |-> "raise", items |-> <<>>]
    ELSE IF body.data = "missing" \/ body.boards = <<>>
    THEN [result |-> "no_records", items |-> <<>>]
    ELSE LET gs == body.boards[1].groups
         IN  IF gs.k = "missing" \/ gs.l = <<>>
             THEN [result |-> "no_records", items |-> <<>>]
             ELSE LET its == gs.l[1].items
                  IN  CASE its.k = "missing" -> [result |-> "no_records", items |-> <<>>]
                        [] its.k = "null" -> [result |-> "raise", items |-> <<>>]
                        [] OTHER -> [result |-> "items", items |-> its.l]

\* ------------------------------------------------------------------------
\* Sample records of the store
\* ------------------------------------------------------------------------
DigitChar(d) == CASE d = 0 -> "0" [] d = 1 -> "1" [] d = 2 -> "2"
                  [] d = 3 -> "3" [] d = 4 -> "4" [] d = 5 -> "5"
                  [] d = 6 -> "6" [] d = 7 -> "7" [] d = 8 -> "8"
                  [] OTHER -> "9"

RECURSIVE NatChars(_)
NatChars(n) == IF n < 10 THEN <<DigitChar(n)>>
               ELSE Append(NatChars(n \div 10), DigitChar(n % 10))

\* The store's text rendering of an integer amount.
IntChars(n) == IF n < 0 THEN <<"-">> \o NatChars(0 - n) ELSE NatChars(n)

\* A numeric column entry as the store returns it: text only, or text with
\* the quoted JSON payload.
TextEntry(col, n) == ColVal(col, PyNone, PyStr(IntChars(n)))
FullEntry(col, n) ==
    ColVal(col, PyStr(<<"\"">> \o IntChars(n) \o <<"\"">>), PyStr(IntChars(n)))

\* An amount with decimals: the payload holds the plain digits, the text
\* is the display form with its thousands separator.
DisplayEntry(col, plain, shown) ==
    ColVal(col, PyStr(<<"\"">> \o plain \o <<"\"">>), PyStr(shown))
ShownEntry(col, shown) == ColVal(col, PyNone, PyStr(shown))

\* All eight metrics present: cost 200, noi 12.5, loan 120, market cap 5,
\* exit cap 6, equity entered as -100, flows 10, sale 150.
ItemFull ==
    Item("101", "A", CvList(<<
        DisplayEntry(COL_NOI, <<"1", "2", ".", "5">>, <<"1", "2", ".", "5", "0">>),
        FullEntry(COL_TOTAL_PROJECT_COST, 200),
        TextEntry(COL_LOAN_AMOUNT, 120), TextEntry(COL_MARKET_CAP_RATE, 5),
        TextEntry(COL_EXIT_CAP_RATE, 6), FullEntry(COL_EQUITY_INVESTMENT, -100),
        TextEntry(COL_YEAR_1_CF, 10), TextEntry(COL_YEAR_2_CF, 10),
        TextEntry(COL_YEAR_3_CF, 10), TextEntry(COL_YEAR_4_CF, 10),
        TextEntry(COL_YEAR_5_CF, 10), TextEntry(COL_SALE_PROCEEDS, 150)>>))

\* No equity and no cost: inflows only, so several metrics are ineligible.
\* The income is shown as 1,234.50.
ItemInflowsOnly ==
    Item("102", "B", CvList(<<
        ShownEntry(COL_NOI, <<"1", ",", "2", "3", "4", ".", "5", "0">>),
        TextEntry(COL_EXIT_CAP_RATE, 6),
        TextEntry(COL_YEAR_1_CF, 10), TextEntry(COL_YEAR_5_CF, 10),
        ColVal(COL_SALE_PROCEEDS, PyNone, PyStr(<<"n", "/", "a">>))>>))

\* No "column_values" key at all: every input degrades to 0.
ItemBare == Item("103", "C", CvMissing)

\* A column entry without "id".
ItemEntryNoId ==
    Item("104", "D", CvList(<<TextEntry(COL_NOI, 12),
                              ColVal(NoKey, PyNone, PyStr(<<"7">>))>>))

\* "column_values": null.
ItemNullColumns == Item("105", "E", CvNull)

\* An item without "id" (its columns are well formed).
ItemNoId ==
    Item(NoKey, "F", CvList(<<TextEntry(COL_NOI, 12),
                              TextEntry(COL_TOTAL_PROJECT_COST, 200)>>))

\* An item without "name" (its columns are well formed).
ItemNoName ==
    Item("107", NoKey, CvList(<<TextEntry(COL_NOI, 12),
                                TextEntry(COL_EXIT_CAP_RATE, 6)>>))

\* An equity of 100 returned exactly: the flows sum to 0, the rate is 0.
ItemBreakEven ==
    Item("108", "H", CvList(<<
        TextEntry(COL_NOI, 12), TextEntry(COL_TOTAL_PROJECT_COST, 200),
        TextEntry(COL_EQUITY_INVESTMENT, 100),
        TextEntry(COL_YEAR_1_CF, 10), TextEntry(COL_YEAR_2_CF, 10),
        TextEntry(COL_YEAR_3_CF, 10), TextEntry(COL_YEAR_4_CF, 10),
        TextEntry(COL_YEAR_5_CF, 10), TextEntry(COL_SALE_PROCEEDS, 50)>>))

ItemSamples == {ItemFull, ItemInflowsOnly, ItemBare, ItemEntryNoId,
                ItemNullColumns, ItemNoId, ItemNoName}

SeqsUpTo(S, n) == UNION {[1..m -> S] : m \in 0..n}

FetchBodies ==
    {RespNotJson, RespNoData, RespDataNull, RespNoBoards, RespNoGroupsKey,
     RespNoGroups, RespNoItemsKey, RespItemsNull}
    \cup {RespItems(l) : l \in SeqsUpTo(ItemSamples, MaxItems)}

\* The body of a write response: a plain result, a result carrying
\* "errors", or a body that is not JSON.
WriteBodies == {"ok", "errors", "notjson"}

\* ------------------------------------------------------------------------
\* State of a run of main
\* ------------------------------------------------------------------------
max_retries == 5

VARIABLES
    env,         \* the environment main reads at lines 41-43
    dry_run,     \* DRY_RUN == "1" (line 43)
    pc,          \* where main stands: "start", "fetch", "loop", "write", or
                 \* an end
    attempt,     \* http_post_with_retries: loop variable of line 28
    delay,       \* http_post_with_retries: delay of lines 27, 36
    sleeps,      \* time.sleep arguments of the call in progress, in order
    lastCall,    \* the last finished http_post_with_retries call
    response,    \* the body the fetch returned (line 78)
    items,       \* line 90
    idx,         \* position of the for loop of line 118 (1-based)
    outcome,     \* per record: what the run reported for it
    mutation,    \* per record: the column_values built at lines 150-168
    posted,      \* per record: was a write request issued (any attempt)
    sent,        \* per record: the field map a successful write delivered
                 \* and the kind of body that came back
    run,         \* which run of main this is, 1 or 2 (lines 192-193)
    store,       \* the records of the group as the store holds them
    irr_seen,    \* what npf.irr returned so far, as <<vector, outcome>>
    first,       \* what the first run left behind, once a second has begun
    cv_in,       \* argument of a stand-alone safe_number_colval call
    cv_out,      \* its result
    rec,         \* record of a stand-alone metric computation
    rec_out      \* its result

vars == <<env, dry_run, pc, attempt, delay, sleeps, lastCall, response, items, idx,
          outcome, mutation, posted, sent, run, store, irr_seen, first,
          cv_in, cv_out, rec, rec_out>>

sessionVars == <<env, run, store, irr_seen, first>>
syncVars == <<dry_run, pc, attempt, delay, sleeps, lastCall, response, items,
              idx, outcome, mutation, posted, sent, sessionVars>>
parseVars == <<cv_in, cv_out>>
metricVars == <<rec, rec_out>>

EmptyMap == [c \in {} |-> Fixed2(0)]
NoResponse == [got |-> FALSE, body |-> RespNoData]
NoCall == [kind |-> "none", attempts |-> 0, sleeps |-> <<>>, result |-> "none"]
Pending == [status |-> "pending", reason |-> "none"]
Reported(st, why) == [status |-> st, reason |-> why]
NotBuilt == [built |-> FALSE, column_values |-> EmptyMap, irr |-> "nan"]
NotSent == [got |-> FALSE, column_values |-> EmptyMap, body |-> "none"]
NoResult == [done |-> FALSE, raised |-> FALSE, v |-> IntNum(0)]
NoMetrics == [done |-> FALSE, raised |-> FALSE, ready |-> FALSE, irr |-> "nan",
              cashflows |-> <<>>, column_values |-> EmptyMap]

NoFirst == [mutation |-> <<>>, outcome |-> <<>>, store |-> <<>>]

\* os.getenv of a variable: None when it is unset, else its string.
Environment(key, board, dry) ==
    [MONDAY_API_KEY |-> key, MONDAY_BOARD_ID |-> board, DRY_RUN |-> dry]
Unset == PyNone
ApiKeys == {Unset, PyStr(<<>>), PyStr(<<"k">>)}
BoardIds == {Unset, PyStr(<<>>), PyStr(<<"7">>)}
DryRunFlags == {Unset, PyStr(<<"1">>), PyStr(<<"0">>)}
Environments ==
    {Environment(k, b, d) : k \in ApiKeys, b \in BoardIds, d \in DryRunFlags}

\* Line 43.
DryRunOf(e) == e.DRY_RUN = PyStr(<<"1">>)

\* Lines 46-49: both settings are there (not None, not empty).
Configured(e) == Truthy(e.MONDAY_API_KEY) /\ Truthy(e.MONDAY_BOARD_ID)

NoEnvironment == Environment(Unset, Unset, Unset)
NewSession == run = 1 /\ store = <<>> /\ irr_seen = {} /\ first = NoFirst

SyncIdle ==
    /\ NewSession /\ env = NoEnvironment
    /\ dry_run = FALSE /\ pc = "idle" /\ attempt = 0 /\ delay = 1
    /\ sleeps = <<>> /\ lastCall = NoCall /\ response = NoResponse
    /\ items = <<>> /\ idx = 1
    /\ outcome = <<>> /\ mutation = <<>> /\ posted = <<>> /\ sent = <<>>
ParseIdle == cv_in = ArgNone /\ cv_out = NoResult
MetricsIdle == rec = ItemBare /\ rec_out = NoMetrics

\* Line 193: main is called, in some environment.
Init ==
    /\ env \in Environments
    /\ dry_run = FALSE
    /\ pc = "start" /\ attempt = 0 /\ delay = 1 /\ sleeps = <<>>
    /\ lastCall = NoCall /\ response = NoResponse /\ items = <<>> /\ idx = 1
    /\ outcome = <<>> /\ mutation = <<>> /\ posted = <<>> /\ sent = <<>>
    /\ NewSession
    /\ ParseIdle /\ MetricsIdle

\* Lines 41-77: the environment is read; without an API key or a board id
\* RuntimeError leaves main before any request, else the fetch call starts.
ReadConfig ==
    /\ pc = "start"
    /\ dry_run' = DryRunOf(env)
    /\ pc' = IF Configured(env) THEN "fetch" ELSE "config_error"
    /\ UNCHANGED <<attempt, delay, sleeps, lastCall, response, items, idx,
                   outcome, mutation, posted, sent>>
    /\ UNCHANGED <<sessionVars, parseVars, metricVars>>

\* ------------------------------------------------------------------------
\* http_post_with_retries (lines 26-38)
\* ------------------------------------------------------------------------
InCall == pc \in {"fetch", "write"}

\* One attempt more than max_retries allowed.
RetryOnceMore(a) == a < max_retries

\* Line 34: is a further attempt allowed after this failed one?
MayRetry(a) == a < max_retries - 1

\* A delay that grows by one instead of doubling.
LinearDelay(d) == d + 1

\* Line 36.
NextDelay(d) == d * 2

\* The attempts of a call are numbered from 0; call number a is the
\* (a+1)-th request.
Finished(kind, res) ==
    [kind |-> kind, attempts |-> attempt + 1, sleeps |-> sleeps, result |-> res]

\* Line 30 under line 180: the first request of the write call of record
\* idx is made; the record has a write request from then on, whether the
\* request returns or not.
MarkPosted == posted' = [posted EXCEPT ![idx] = TRUE]

\* Lines 30-36: the request or raise_for_status raises and another attempt
\* is allowed: sleep, double the delay, next attempt.
HttpAttemptFails ==
    /\ InCall
    /\ MayRetry(attempt)
    /\ sleeps' = Append(sleeps, delay)
    /\ delay' = NextDelay(delay)
    /\ attempt' = attempt + 1
    /\ UNCHANGED <<dry_run, pc, lastCall, response, items, idx, outcome,
                   mutation, posted, sent>>
    /\ UNCHANGED <<sessionVars, parseVars, metricVars>>

\* ------------------------------------------------------------------------
\* main: the fetch (lines 77-90)
\* ------------------------------------------------------------------------
\* The failure of the fetch swallowed, the run going on without records.
FetchFailureSwallowed == "loop"

\* Line 77 is outside any try block: the RuntimeError of line 38 leaves
\* main and ends the run.
FetchFailureExit == "fetch_failed"

\* Lines 37-38 under line 77: the last attempt fails, RuntimeError leaves
\* main.
FetchExhausted ==
    /\ pc = "fetch"
    /\ ~MayRetry(attempt)
    /\ pc' = FetchFailureExit
    /\ lastCall' = Finished("fetch", "raised")
    /\ UNCHANGED <<dry_run, attempt, delay, sleeps, response, items, idx,
                   outcome, mutation, posted, sent>>
    /\ UNCHANGED <<sessionVars, parseVars, metricVars>>

\* Lines 32, 77-90: an attempt succeeds and the response is examined.  The
\* first fetch shows what the store holds; the fetch of a second run
\* returns the records as the first run left them.
FetchSucceeds ==
    /\ pc = "fetch"
    /\ \E body \in (IF run = 1 THEN FetchBodies ELSE {RespItems(store)}) :
         LET p == ParseFetch(body)
             n == Len(p.items)
         IN  /\ response' = [got |-> TRUE, body |-> body]
             /\ store' = p.items
             /\ pc' = CASE p.result = "raise" -> "aborted"
                        [] p.result = "no_records" -> "no_records"
                        [] OTHER -> "loop"
             /\ items' = p.items
             /\ outcome' = [i \in 1..n |-> Pending]
             /\ mutation' = [i \in 1..n |-> NotBuilt]
             /\ posted' = [i \in 1..n |-> FALSE]
             /\ sent' = [i \in 1..n |-> NotSent]
    /\ lastCall' = Finished("fetch", "returned")
    /\ idx' = 1
    /\ UNCHANGED <<env, dry_run, attempt, delay, sleeps, run, irr_seen, first>>
    /\ UNCHANGED <<parseVars, metricVars>>

\* ------------------------------------------------------------------------
\* main: the loop over the records (lines 118-190)
\* ------------------------------------------------------------------------
\* The dry-run flag ignored.
AlwaysWrites(dry) == TRUE

\* Line 177: is the write call made?
IssuesWrite(dry) == ~dry

\* The exception of record i not caught: it leaves main.
UncaughtException(i) == [pc |-> "aborted", idx |-> i]

\* Lines 189-190: an exception raised inside the try block for record i is
\* caught and printed, and the for loop takes the next record.
LoopAfterException(i) == [pc |-> "loop", idx |-> i + 1]

\* npf.irr is a function: asked again about a vector, in this run or in a
\* later one, it returns what it returned before.
IrrReturned(cf) ==
    {o \in IrrOutcomes(cf) : \A p \in irr_seen : p[1] = cf => p[2] = o}

\* Lines 118-178 for record idx: build cv_dict, then the try block up to
\* the dry-run print or the start of the write call.
ProcessRecord ==
    /\ pc = "loop"
    /\ idx <= Len(items)
    /\ LET item == items[idx]
       IN  IF CvDictRaises(item)
           THEN \* line 119 is outside the try block: the exception leaves main
                /\ pc' = "aborted"
                /\ UNCHANGED <<idx, outcome, mutation, attempt, delay, sleeps,
                               lastCall, posted, irr_seen>>
           ELSE \E irr \in IrrReturned(Cashflows(item)) :
                /\ irr_seen' = IF ComputeRaises(item) THEN irr_seen
                               ELSE irr_seen \cup {<<Cashflows(item), irr>>}
                /\ mutation' = [mutation EXCEPT ![idx] =
                      IF ComputeRaises(item) \/ IrrRaises(irr) THEN NotBuilt
                      ELSE [built |-> TRUE, irr |-> irr,
                            column_values |-> ColumnValues(item, irr)]]
                /\ IF TryRaises(item, dry_run) \/ IrrRaises(irr)
                   THEN \* lines 189-190
                        /\ outcome' = [outcome EXCEPT ![idx] =
                                          Reported("failed", "exception")]
                        /\ pc' = LoopAfterException(idx).pc
                        /\ idx' = LoopAfterException(idx).idx
                        /\ UNCHANGED <<attempt, delay, sleeps, lastCall, posted>>
                   ELSE IF IssuesWrite(dry_run)
                   THEN \* line 180: http_post_with_retries starts and
                        \* makes its first request (line 30)
                        /\ pc' = "write"
                        /\ attempt' = 0 /\ delay' = 1 /\ sleeps' = <<>>
                        /\ lastCall' = NoCall
                        /\ MarkPosted
                        /\ UNCHANGED <<idx, outcome>>
                   ELSE \* line 178
                        /\ outcome' = [outcome EXCEPT ![idx] =
                                          Reported("skipped", "dry-run")]
                        /\ idx' = idx + 1
                        /\ UNCHANGED <<pc, attempt, delay, sleeps, lastCall,
                                       posted>>
    /\ UNCHANGED <<env, dry_run, response, items, sent, run, store, first>>
    /\ UNCHANGED <<parseVars, metricVars>>

\* Lines 37-38 under line 180, then lines 189-190: the last attempt fails,
\* RuntimeError is caught and printed, the loop goes on.
WriteExhausted ==
    /\ pc = "write"
    /\ ~MayRetry(attempt)
    /\ lastCall' = Finished("write", "raised")
    /\ outcome' = [outcome EXCEPT ![idx] = Reported("failed", "http")]
    /\ pc' = LoopAfterException(idx).pc
    /\ idx' = LoopAfterException(idx).idx
    /\ UNCHANGED <<dry_run, attempt, delay, sleeps, response, items, mutation,
                   posted, sent>>
    /\ UNCHANGED <<sessionVars, parseVars, metricVars>>

\* The order in which lines 150-166 fill the field map.
OutputOrder == <<COL_CAP_RATE, COL_LTV, COL_YIELD_ON_COST, COL_SPREAD,
                 COL_REVERSION_VALUE, COL_CASH_ON_CASH, COL_IRR,
                 COL_EQUITY_MULTIPLE>>

\* The characters of a formatted value; the digits of a rate that is not
\* 0 are not known and stand as "r.rr".
TwoDigits(n) == <<DigitChar(n \div 10), DigitChar(n % 10)>>
Rendered(val) ==
    CASE val.of = "irr*100" -> <<"r", ".", "r", "r">>
      [] val.of = "nan" -> <<"n", "a", "n">>
      [] val.of = "inf" -> <<"i", "n", "f">>
      [] val.of = "-inf" -> <<"-", "i", "n", "f">>
      [] OTHER ->
           (IF val.h < 0 \/ val.negzero THEN <<"-">> ELSE <<>>)
           \o NatChars(Abs(val.h) \div 100) \o <<".">>
           \o TwoDigits(Abs(val.h) % 100)

\* The column entry the store returns for a written value.
OutEntry(col, val) ==
    ColVal(col, PyStr(<<"\"">> \o Rendered(val) \o <<"\"">>), PyStr(Rendered(val)))

\* Lines 169-175, change_multiple_column_values: the columns named in the
\* map take the new values, every other column of the record is kept.
StoreApply(item, map) ==
    LET old == ColumnEntries(item).l
        kept == SelectSeq(old, LAMBDA e : e.id \notin DOMAIN map)
        cols == SelectSeq(OutputOrder, LAMBDA c : c \in DOMAIN map)
    IN  [item EXCEPT !.column_values =
            CvList(kept \o [i \in 1..Len(cols) |-> OutEntry(cols[i], map[cols[i]])])]

\* The store applies a mutation that it answers without "errors".
Accepted(body) == body = "ok"

\* An "errors" entry in the body of a write turned into an exception.
ErrorsRaise(body) == body \in {"notjson", "errors"}

\* Lines 185-187: update_resp.json() raises on a body that is not JSON; an
\* "errors" entry is only printed.
BodyRaises(body) == body = "notjson"

\* Lines 32 under line 180, then lines 185-190: an attempt succeeds; the
\* body is decoded and checked for "errors".
WriteSucceeds ==
    /\ pc = "write"
    /\ lastCall' = Finished("write", "returned")
    /\ \E body \in WriteBodies :
         /\ sent' = [sent EXCEPT ![idx] =
                        [got |-> TRUE, body |-> body,
                         column_values |-> mutation[idx].column_values]]
         /\ store' = IF Accepted(body)
                     THEN [store EXCEPT ![idx] =
                              StoreApply(@, mutation[idx].column_values)]
                     ELSE store
         /\ IF BodyRaises(body)
            THEN \* line 185 raises, lines 189-190
                 /\ outcome' = [outcome EXCEPT ![idx] =
                                   Reported("failed", "exception")]
                 /\ pc' = LoopAfterException(idx).pc
                 /\ idx' = LoopAfterException(idx).idx
            ELSE /\ outcome' = [outcome EXCEPT ![idx] =
                        IF body = "errors" THEN Reported("rejected", "errors")
                        ELSE Reported("updated", "none")]
                 /\ pc' = "loop"
                 /\ idx' = idx + 1
    /\ UNCHANGED <<env, dry_run, attempt, delay, sleeps, response, items,
                   mutation, posted, run, irr_seen, first>>
    /\ UNCHANGED <<parseVars, metricVars>>

\* Line 118: the list is exhausted, main returns.
LoopExit ==
    /\ pc = "loop"
    /\ idx > Len(items)
    /\ pc' = "done"
    /\ UNCHANGED <<dry_run, attempt, delay, sleeps, lastCall, response, items,
                   idx, outcome, mutation, posted, sent>>
    /\ UNCHANGED <<sessionVars, parseVars, metricVars>>

Next ==
    \/ ReadConfig
    \/ HttpAttemptFails
    \/ FetchExhausted
    \/ FetchSucceeds
    \/ ProcessRecord
    \/ WriteExhausted
    \/ WriteSucceeds
    \/ LoopExit

Spec == Init /\ [][Next]_vars

\* ProcessRecord can be taken exactly when the loop has a record left.
RecordLeft == pc = "loop" /\ idx <= Len(items)

\* The interpreter runs the code of main: a step of its own that is
\* possible is eventually taken.  The weak fairness of ProcessRecord is
\* written out, with RecordLeft as its enabling condition.  The steps that
\* begin with the return of requests.post (line 30) are not among them: the
\* request is made without a timeout, and nothing in the code makes a
\* request that the server never answers return.
FairSpec ==
    /\ Spec
    /\ WF_vars(ReadConfig \/ LoopExit)
    /\ ([]<>~RecordLeft \/ []<><<ProcessRecord>>_vars)

\* ------------------------------------------------------------------------
\* Two runs of main in a row over the same store
\* ------------------------------------------------------------------------
RerunSamples == {ItemInflowsOnly, ItemBreakEven, ItemNoId}

\* The first run has fetched its records (lines 77-90) at the first attempt.
InitRerun ==
    /\ env \in {e \in Environments : Configured(e)}
    /\ dry_run = DryRunOf(env)
    /\ \E l \in SeqsUpTo(RerunSamples, MaxRerunItems) \ {<<>>} :
         /\ items = l /\ store = l
         /\ response = [got |-> TRUE, body |-> RespItems(l)]
         /\ outcome = [i \in 1..Len(l) |-> Pending]
         /\ mutation = [i \in 1..Len(l) |-> NotBuilt]
         /\ posted = [i \in 1..Len(l) |-> FALSE]
         /\ sent = [i \in 1..Len(l) |-> NotSent]
    /\ pc = "loop" /\ idx = 1 /\ attempt = 0 /\ delay = 1 /\ sleeps = <<>>
    /\ lastCall = [kind |-> "fetch", attempts |-> 1, sleeps |-> <<>>,
                   result |-> "returned"]
    /\ run = 1 /\ irr_seen = {} /\ first = NoFirst
    /\ ParseIdle /\ MetricsIdle

\* Lines 192-193 once more: main has ended and is started again with the
\* same configuration, nobody having touched the store in between.
Rerun ==
    /\ run = 1
    /\ pc \in {"done", "no_records", "fetch_failed", "aborted", "config_error"}
    /\ run' = 2
    /\ first' = [mutation |-> mutation, outcome |-> outcome, store |-> store]
    /\ pc' = "start" /\ attempt' = 0 /\ delay' = 1 /\ sleeps' = <<>>
    /\ lastCall' = NoCall /\ response' = NoResponse /\ items' = <<>> /\ idx' = 1
    /\ outcome' = <<>> /\ mutation' = <<>> /\ posted' = <<>> /\ sent' = <<>>
    /\ dry_run' = FALSE
    /\ UNCHANGED <<env, store, irr_seen>>
    /\ UNCHANGED <<parseVars, metricVars>>

NextRerun ==
    \/ Next
    \/ Rerun

SpecRerun == InitRerun /\ [][NextRerun]_vars

\* ------------------------------------------------------------------------
\* safe_number_colval on its own: every argument over small alphabets
\* ------------------------------------------------------------------------
ValAlphabet == {"1", "0", "-", " ", "\"", "."}
TextAlphabet == {"1", ",", "-", " ", "x", "."}

\* Longer payloads and texts: decimals, exponents, JSON literals, escapes,
\* the other whitespace characters, NaN and the infinities, digits of
\* other scripts, raw control characters, a pair of surrogate escapes and
\* literals beyond the range of a double.
ValSamples ==
    {<<"1", ".", "5">>, <<"\"", "1", ".", "5", "\"">>, <<"t", "r", "u", "e">>,
     <<"f", "a", "l", "s", "e">>, <<"n", "u", "l", "l">>, <<"\t", "1">>,
     <<"N", "a", "N">>, <<"-", "I", "n", "f", "i", "n", "i", "t", "y">>,
     <<"1", "e", "2">>, <<"[", "1", "]">>,
     <<"\"", "\\", "u", "0", "0", "3", "1", "\"">>,
     <<"\"", "1", ",", "5", "\"">>,
     <<"\"", OtherDigits[2], "\"">>, <<"\"", VtChar, "1", "\"">>,
     <<"\"", "\\", "u", "d", "8", "3", "5", "\\", "u", "d", "f", "c", "f", "\"">>,
     <<"2", "e", "3", "0", "8">>}
TextSamples ==
    {<<"1", ",", "2", "3", "4", ".", "5", "0">>, <<"n", "a", "n">>,
     <<"1", "e", "2">>, <<"\t", "1", "2", "\n">>, <<"-", "i", "n", "f">>,
     <<"1", "_", "0">>, <<"-", "0", ".", "0">>, <<"0", ".", "0", "0", "5">>,
     <<OtherDigits[2], ".", "5">>, <<WsChar, "1">>, <<CtlChar, "1">>,
     <<"1", "e", "-", "3", "2", "4">>}

ValOpts ==
    {PyNone, PyOther}
    \cup {PyStr(s) : s \in SeqsUpTo(ValAlphabet, MaxValLen) \cup ValSamples}
TextOpts ==
    {PyNone, PyOther}
    \cup {PyStr(s) : s \in SeqsUpTo(TextAlphabet, MaxTextLen) \cup TextSamples}

ParseArgs ==
    {ArgNone, ArgEmptyDict}
    \cup {ArgStr(s) : s \in SeqsUpTo(TextAlphabet, MaxTextLen) \cup TextSamples}
    \cup {ColVal(COL_NOI, v, t) : v \in ValOpts, t \in TextOpts}

InitParse ==
    /\ SyncIdle /\ MetricsIdle
    /\ cv_in \in ParseArgs
    /\ cv_out = NoResult

\* One call of safe_number_colval(cv_in).
ParseCall ==
    /\ ~cv_out.done
    /\ LET r == safe_number_colval(cv_in)
       IN  cv_out' = [done |-> TRUE, raised |-> r.raised, v |-> r.v]
    /\ UNCHANGED <<cv_in, syncVars, metricVars>>

NextParse == ParseCall

SpecParse == InitParse /\ [][NextParse]_vars

\* ------------------------------------------------------------------------
\* The metric computation on its own: one record over a grid of inputs
\* ------------------------------------------------------------------------
\* Whole amounts; a single flow of 1 or 3 against an equity of 200 gives a
\* multiple halfway between two hundredths, where the double decides.
NoiVals == {0, 12}
CostVals == {-200, 0, 200}
LoanVals == {0, 120}
MarketCapVals == {0, 5}
ExitCapVals == {0, 6}
EquityVals == {-200, 0, 200}
FlowVals == {-1, 0, 1}
MidFlowVals == {0, 1}
SaleVals == {0, 201}

\* The equity field as the store may hold it: an amount of either sign, a
\* text that is no number, an entry without text, or no entry at all.
NoEntry == <<>>
EquityEntries ==
    {<<TextEntry(COL_EQUITY_INVESTMENT, e)>> : e \in EquityVals}
    \cup {<<ColVal(COL_EQUITY_INVESTMENT, PyNone, PyStr(<<"n", "/", "a">>))>>,
          <<ColVal(COL_EQUITY_INVESTMENT, PyNone, PyNone)>>,
          NoEntry}

MetricRecord(aNoi, aCost, aLoan, aMcr, aEcr, eqEntry, f1, f2, f3, f4, f5, aSale) ==
    Item("201", "M", CvList(
        <<TextEntry(COL_NOI, aNoi), TextEntry(COL_TOTAL_PROJECT_COST, aCost),
          TextEntry(COL_LOAN_AMOUNT, aLoan), TextEntry(COL_MARKET_CAP_RATE, aMcr),
          TextEntry(COL_EXIT_CAP_RATE, aEcr)>>
        \o eqEntry \o
        <<TextEntry(COL_YEAR_1_CF, f1), TextEntry(COL_YEAR_2_CF, f2),
          TextEntry(COL_YEAR_3_CF, f3), TextEntry(COL_YEAR_4_CF, f4),
          TextEntry(COL_YEAR_5_CF, f5), TextEntry(COL_SALE_PROCEEDS, aSale)>>))

InitMetrics ==
    /\ SyncIdle /\ ParseIdle
    /\ \E aNoi \in NoiVals, aCost \in CostVals, aLoan \in LoanVals,
          aMcr \in MarketCapVals, aEcr \in ExitCapVals,
          eqEntry \in EquityEntries,
          f1 \in FlowVals, f2 \in FlowVals, f3 \in MidFlowVals,
          f4 \in MidFlowVals, f5 \in FlowVals, aSale \in SaleVals :
         rec = MetricRecord(aNoi, aCost, aLoan, aMcr, aEcr, eqEntry,
                            f1, f2, f3, f4, f5, aSale)
    /\ rec_out = NoMetrics

\* Lines 120-176 for the record rec: raised when the try block raises,
\* ready when control reaches line 177 with the mutation built.
ComputeMetrics ==
    /\ ~rec_out.done
    /\ LET cf == Cashflows(rec)
       IN  \E irr \in IrrOutcomes(cf) :
             LET exc == TryRaises(rec, FALSE) \/ IrrRaises(irr)
             IN  rec_out' = [done |-> TRUE, raised |-> exc, ready |-> ~exc,
                             irr |-> irr, cashflows |-> cf,
                             column_values |->
                                 IF exc THEN EmptyMap
                                 ELSE ColumnValues(rec, irr)]
    /\ UNCHANGED <<rec, syncVars, parseVars>>

NextMetrics == ComputeMetrics

SpecMetrics == InitMetrics /\ [][NextMetrics]_vars

\* ------------------------------------------------------------------------
\* Properties of a run
\* ------------------------------------------------------------------------
Records == 1..Len(items)

\* The write call of record j ended and none of its attempts succeeded.
WriteFailed(j) == posted[j] /\ ~sent[j].got /\ ~(pc = "write" /\ idx = j)

FailedHttp == Reported("failed", "http")

\* C1: a write call that fails terminally is reported as failed for its
\* record only and the loop moves on past it; when a live run completes,
\* every record whose own processing did not raise got a write request,
\* delivered unless the record's write call failed, and the failed-write
\* entries are exactly the records whose write call failed.
C1_WriteFailureIsolated ==
    /\ \A j \in Records :
         WriteFailed(j) => outcome[j] = FailedHttp /\ idx > j
    /\ \A j \in Records : outcome[j] = FailedHttp => WriteFailed(j)
    /\ (pc = "done" /\ ~dry_run) =>
         \A j \in Records :
            ~TryRaises(items[j], FALSE) =>
               posted[j] /\ (sent[j].got \/ outcome[j] = FailedHttp)

\* A completed live run over three records: the write of the second failed,
\* the first and third were written, one failed entry.
C1_Witness ==
    /\ pc = "done" /\ ~dry_run /\ Len(items) = 3
    /\ WriteFailed(2) /\ outcome[2] = FailedHttp
    /\ sent[1].got /\ outcome[1].status = "updated"
    /\ sent[3].got /\ outcome[3].status = "updated"
    /\ Cardinality({j \in Records : outcome[j].status = "failed"}) = 1

\* C2: in dry-run mode no write request is ever issued (the fetch is the
\* only call), and the field map built for a record is, in both modes, the
\* map the live run delivers for the same record inputs.
C2_DryRunNoWrite ==
    /\ dry_run =>
         /\ pc # "write"
         /\ lastCall.kind # "write"
         /\ \A j \in Records : ~posted[j] /\ ~sent[j].got
    /\ \A j \in Records :
         /\ mutation[j].built =>
              mutation[j].column_values = ColumnValues(items[j], mutation[j].irr)
         /\ sent[j].got => sent[j].column_values = mutation[j].column_values
         /\ (j < idx /\ ~ComputeRaises(items[j])) => mutation[j].built

\* A completed dry run that skipped two records, the first with all eight
\* metrics in its map.
C2_Witness ==
    /\ dry_run /\ pc = "done" /\ Len(items) >= 2
    /\ \A j \in Records : outcome[j].status = "skipped" /\ mutation[j].built
    /\ DOMAIN mutation[1].column_values = OutputCols

Backoff(sl) == \A k \in 1..Len(sl) : sl[k] = Pow2(k - 1)

\* C3: every call, fetch or write, makes at most max_retries attempts; the
\* k-th failed attempt (k < max_retries) is followed by a sleep of 2^(k-1);
\* a call that returned slept once per failed attempt and made no attempt
\* after the successful one; a call that raised made max_retries attempts
\* and slept 1, 2, 4, 8, with no sleep after the last attempt.
C3_RetryPolicy ==
    /\ InCall =>
         /\ attempt <= max_retries - 1
         /\ Len(sleeps) = attempt
         /\ delay = Pow2(attempt)
         /\ Backoff(sleeps)
    /\ lastCall.kind # "none" =>
         /\ lastCall.kind \in {"fetch", "write"}
         /\ lastCall.attempts \in 1..max_retries
         /\ Len(lastCall.sleeps) = lastCall.attempts - 1
         /\ Backoff(lastCall.sleeps)
         /\ lastCall.result = "raised" =>
               lastCall.attempts = max_retries /\ lastCall.sleeps = <<1, 2, 4, 8>>

\* A write call that raised after five attempts and four sleeps, reported
\* as the failure of the first record.
C3_Witness ==
    /\ lastCall = [kind |-> "write", attempts |-> 5, sleeps |-> <<1, 2, 4, 8>>,
                   result |-> "raised"]
    /\ Len(items) >= 1 /\ outcome[1] = FailedHttp

\* C4: when the fetch call raises after its last attempt the run ends as
\* failed: no record was obtained and no write request is ever issued.
C4_FetchFailureFatal ==
    /\ (lastCall.kind = "fetch" /\ lastCall.result = "raised") =>
          pc = "fetch_failed"
    /\ pc = "fetch_failed" =>
          /\ lastCall = [kind |-> "fetch", attempts |-> max_retries,
                         sleeps |-> <<1, 2, 4, 8>>, result |-> "raised"]
          /\ ~response.got
          /\ items = <<>> /\ posted = <<>> /\ sent = <<>> /\ outcome = <<>>

C4_Witness == pc = "fetch_failed" /\ attempt = max_retries - 1

\* C5: an exception raised while processing one record, building its field
\* map from the raw column entries included, never aborts the batch: the
\* run never ends inside the loop with records left unprocessed.
C5_RecordExceptionContained ==
    ~(pc = "aborted" /\ idx <= Len(items))

\* C6: the field map delivered for a record has an entry for each of the
\* eight metrics, a value or a clear marker; no metric is left out.
C6_EveryMetricInMap ==
    \A j \in Records : sent[j].got => DOMAIN sent[j].column_values = OutputCols

\* The write of record j got an HTTP success whose body carries "errors".
Rejected(j) == sent[j].got /\ sent[j].body = "errors"

\* C17: a write whose HTTP call succeeds but whose response body carries an
\* "errors" entry is not retried and raises no exception: it is reported as
\* an error for that record only and the loop proceeds to the next record;
\* only an attempt that brought no response is followed by a sleep and
\* another attempt.
C17_ErrorsBodyNotRetried ==
    /\ [](\A j \in Records :
            /\ Rejected(j) => outcome[j] = Reported("rejected", "errors") /\ idx > j
            /\ outcome[j].status = "rejected" => Rejected(j))
    /\ [][(pc = "write" /\ sent'[idx].got)
            => /\ sleeps' = sleeps /\ attempt' = attempt /\ delay' = delay
               /\ pc' = "loop" /\ idx' = idx + 1
               /\ \A j \in Records \ {idx} : outcome'[j] = outcome[j]]_vars
    /\ [][sleeps' # sleeps
            => \/ sleeps' = <<>>
               \/ /\ InCall /\ attempt' = attempt + 1
                  /\ sent' = sent /\ response' = response
                  /\ lastCall' = lastCall /\ outcome' = outcome]_vars

\* Record 1 is answered with an "errors" body after two failed attempts and
\* record 2 is updated: the sleeps of record 1's call are 1 and 2.
C17_Witness ==
    /\ Len(items) >= 2 /\ pc = "loop" /\ idx = 2
    /\ Rejected(1) /\ outcome[1] = Reported("rejected", "errors")
    /\ lastCall = [kind |-> "write", attempts |-> 3, sleeps |-> <<1, 2>>,
                   result |-> "returned"]

\* main has ended, by a return or by an exception.
Terminated ==
    pc \in {"done", "no_records", "fetch_failed", "aborted", "config_error"}

\* The write requests the rest of the run can still make: what is left of
\* the call in progress and max_retries for each record not yet started.
WriteBudget ==
    CASE pc = "write" ->
             (max_retries - attempt) + max_retries * (Len(items) - idx)
      [] pc = "loop" -> max_retries * (Len(items) + 1 - idx)
      [] OTHER -> 0

\* The write call of record j was made and has ended.
WriteCallEnded(j) ==
    outcome[j] \in {Reported("updated", "none"), Reported("rejected", "errors"),
                    Reported("failed", "http")}
    \/ (sent[j].got /\ outcome[j] = Reported("failed", "exception"))

\* Attempt number a of a call is made and requests.post never returns.
RequestNeverReturns ==
    \E a \in 0..(max_retries - 1) : <>[](InCall /\ attempt = a)

\* A live run that completed gave every record at least one write attempt.
C16_EveryRecordWritten ==
    (pc = "done" /\ ~dry_run) => \A j \in Records : posted[j]

\* C16: in a live run the network calls are strictly sequential and
\* ordered: the fetch completes before any write; the write attempts of a
\* record all end, by a success or by the failure of the last one, before
\* any attempt for the next record; a record whose processing reaches the
\* write call gets between 1 and max_retries attempts and none after one
\* that succeeded, while a record whose processing raises before the write
\* call, or that the run never reaches, gets none; the fetch takes at most
\* max_retries requests and the writes at most max_retries times the number
\* of records, and the run terminates unless one of its requests never
\* returns, the run then staying in that attempt of that call for ever.
C16_SequentialCalls ==
    /\ [](/\ pc = "fetch" => (attempt < max_retries /\ posted = <<>>)
          /\ pc = "write" =>
                /\ attempt < max_retries /\ ~dry_run
                /\ idx \in Records /\ ~sent[idx].got
                /\ outcome[idx] = Pending /\ posted[idx]
          /\ \A j \in Records :
                /\ posted[j] =>
                      /\ response.got /\ j <= idx
                      /\ j < idx => WriteCallEnded(j)
                /\ WriteCallEnded(j) => posted[j]
                /\ outcome[j] = Reported("failed", "exception") /\ ~sent[j].got
                      => ~posted[j]
                /\ j > idx => ~posted[j] /\ outcome[j] = Pending
          /\ lastCall.kind # "none" => lastCall.attempts \in 1..max_retries
          /\ WriteBudget >= 0)
    /\ [][/\ pc = "fetch" => (pc' = "fetch" => attempt' = attempt + 1)
          /\ pc = "fetch" /\ pc' = "loop" => WriteBudget' = max_retries * Len(items')
          /\ pc = "write" => WriteBudget' < WriteBudget
          /\ pc = "loop" => WriteBudget' <= WriteBudget]_vars
    /\ <>Terminated \/ RequestNeverReturns

\* A live run of two records completed: the write of the first failed after
\* five attempts and the write of the second succeeded at its second.
C16_Witness ==
    /\ pc = "done" /\ ~dry_run /\ Len(items) = 2
    /\ posted[1] /\ outcome[1] = FailedHttp
    /\ posted[2] /\ outcome[2] = Reported("updated", "none")
    /\ lastCall = [kind |-> "write", attempts |-> 2, sleeps |-> <<1>>,
                   result |-> "returned"]

\* ------------------------------------------------------------------------
\* Properties of two runs in a row
\* ------------------------------------------------------------------------
\* Record j was processed up to its field map in both runs.
BuiltTwice(j) ==
    /\ j \in DOMAIN mutation /\ mutation[j].built
    /\ j \in DOMAIN first.mutation /\ first.mutation[j].built

\* The write of record j was accepted by the store in the first run.
WrittenFirst(j) ==
    j \in DOMAIN first.outcome /\ first.outcome[j] = Reported("updated", "none")

\* Whatever happened to the writes of the first run, the store after the
\* second run is the store after the first.
C11_SecondRunChangesNothing ==
    (run = 2 /\ pc = "done") => store = first.store

\* C11: the sync is idempotent: run twice against a store whose input
\* fields are unchanged, it builds for every record the same output field
\* map in both runs, and the writes of the second run overwrite rather
\* than accumulate: a record whose write the store accepted in the first
\* run is held by the store after the second run exactly as after the
\* first, and no run changes an input field.  A record whose write failed
\* or was rejected in the first run may still be changed by the second.
C11_Idempotent ==
    run = 2 =>
        /\ \A j \in 1..Len(first.mutation) :
              BuiltTwice(j) => mutation[j] = first.mutation[j]
        /\ \A j \in Records :
              (j < idx /\ first.outcome[j] # Pending)
                  => mutation[j].built = first.mutation[j].built
        /\ Len(store) = Len(first.store)
        /\ \A j \in 1..Len(store) :
              /\ WrittenFirst(j) => store[j] = first.store[j]
              /\ \A c \in InputCols :
                    CvGet(store[j], c) = CvGet(first.store[j], c)

\* The break-even record written by both runs: the second run fetched it
\* with the outputs of the first, built the same map, rate 0.00 included,
\* and left the store as it was.
C11_Witness ==
    /\ run = 2 /\ pc = "done" /\ Len(items) >= 1
    /\ WrittenFirst(1) /\ outcome[1] = Reported("updated", "none")
    /\ CvGet(items[1], COL_CAP_RATE) = OutEntry(COL_CAP_RATE, Fixed2(600))
    /\ CvGet(items[1], COL_IRR) = OutEntry(COL_IRR, IrrText("zero"))
    /\ mutation[1].irr = "zero" /\ mutation[1] = first.mutation[1]
    /\ store[1] = first.store[1]

\* ------------------------------------------------------------------------
\* Properties of safe_number_colval
\* ------------------------------------------------------------------------
\* C7: the parser is total over None, plain strings and dicts: no exception
\* escapes, and an absent or empty argument, or one whose payload and text
\* both fail to convert, gives 0.
C7_ParserTotal ==
    cv_out.done =>
        /\ ~cv_out.raised
        /\ cv_in \in {ArgNone, ArgStr(<<>>), ArgEmptyDict} => cv_out.v = IntNum(0)
        /\ (/\ cv_in.k = "dict"
            /\ ~(Truthy(cv_in.value) /\ DecodeValue(cv_in.value).ok)
            /\ ~(cv_in.text.k = "str" /\ PyFloat(RemoveCommas(cv_in.text.s)).ok))
           => cv_out.v = IntNum(0)

\* ------------------------------------------------------------------------
\* Properties of the metric computation
\* ------------------------------------------------------------------------
CostCols == {COL_CAP_RATE, COL_LTV, COL_YIELD_ON_COST}

\* The cost as the store holds it: the text of the record's cost entry.
CostText(item) == CvGet(item, COL_TOTAL_PROJECT_COST).text.s

\* C8: cap_rate, ltv and yield_on_cost are all three absent when
\* total_project_cost is not greater than 0 and all three present when it
\* is, whatever the other inputs.
C8_CostMetricsPresence ==
    rec_out.done =>
        /\ ~rec_out.raised
        /\ (CostText(rec) \in {IntChars(c) : c \in {c \in CostVals : c <= 0}})
              => CostCols \cap DOMAIN rec_out.column_values = {}
        /\ (CostText(rec) \in {IntChars(c) : c \in {c \in CostVals : c > 0}})
              => CostCols \subseteq DOMAIN rec_out.column_values

\* A negative cost with income, loan and every other input non-zero: the
\* three metrics are absent while the others are there.
C8_Witness ==
    /\ rec_out.done
    /\ LtZero(total_project_cost(rec)) /\ GtZero(noi(rec))
    /\ GtZero(loan_amount(rec))
    /\ CostCols \cap DOMAIN rec_out.column_values = {}
    /\ COL_REVERSION_VALUE \in DOMAIN rec_out.column_values
    /\ COL_EQUITY_MULTIPLE \in DOMAIN rec_out.column_values

\* All entries of a vector are >= 0, or all are <= 0.
SameSign(cf) ==
    \/ \A i \in 1..Len(cf) : GtZero(cf[i]) \/ IsZero(cf[i])
    \/ \A i \in 1..Len(cf) : LtZero(cf[i]) \/ IsZero(cf[i])

\* C9: when the cash-flow vector of a record has no sign change, irr is
\* absent from its field map, the computation raises nothing, the metrics
\* that do not depend on the vector are still there, and control reaches
\* the write.
C9_NoSignChangeNoIrr ==
    (rec_out.done /\ SameSign(rec_out.cashflows)) =>
        /\ COL_IRR \notin DOMAIN rec_out.column_values
        /\ ~rec_out.raised /\ rec_out.ready
        /\ HasReversion(rec) <=> COL_REVERSION_VALUE \in DOMAIN rec_out.column_values
        /\ HasCostMetrics(rec) <=> CostCols \subseteq DOMAIN rec_out.column_values

\* No equity and inflows only, with a reversion value computed.
C9_Witness ==
    /\ rec_out.done /\ rec_out.ready
    /\ IsZero(rec_out.cashflows[1]) /\ GtZero(rec_out.cashflows[2])
    /\ SameSign(rec_out.cashflows)
    /\ COL_IRR \notin DOMAIN rec_out.column_values
    /\ COL_REVERSION_VALUE \in DOMAIN rec_out.column_values

\* A raw input as the store holds it: the text of the record's entry.
RawText(item, col) == CvGet(item, col).text

RawIs(item, col, n) == RawText(item, col) = PyStr(IntChars(n))

\* The floats of a list of whole amounts.
Floats(amounts) == [i \in 1..Len(amounts) |-> IntNum(amounts[i])]

\* The whole amount a float stands for.
Amount(x) == IF x.neg THEN 0 - x.p ELSE x.p

\* The value val shows the quotient num / den (den > 0) to two decimals:
\* it lies within half a hundredth of it.
Shows(val, num, den) ==
    /\ val.fmt = "2f" /\ val.of = "quotient"
    /\ 2 * Abs(val.h * den - 100 * num) <= den

\* C13: the cash-flow vector of a record has exactly 6 entries,
\* [-|equity|, y1, y2, y3, y4, y5 + sale proceeds]: the first is <= 0
\* whatever the sign of the raw equity field and is 0 only for an equity of
\* 0, the next four are the raw period flows unchanged, and only the last
\* includes the sale proceeds.
C13_CashflowVector ==
    rec_out.done =>
        LET cf == rec_out.cashflows
        IN  /\ Len(cf) = 6
            /\ LtZero(cf[1]) \/ IsZero(cf[1])
            /\ \A e \in EquityVals :
                 RawIs(rec, COL_EQUITY_INVESTMENT, e) =>
                     /\ cf[1] = NNeg(IntNum(Abs(e)))
                     /\ IsZero(cf[1]) <=> e = 0
            /\ \A v \in FlowVals :
                 /\ RawIs(rec, COL_YEAR_1_CF, v) => cf[2] = IntNum(v)
                 /\ RawIs(rec, COL_YEAR_2_CF, v) => cf[3] = IntNum(v)
                 /\ RawIs(rec, COL_YEAR_3_CF, v) => cf[4] = IntNum(v)
                 /\ RawIs(rec, COL_YEAR_4_CF, v) => cf[5] = IntNum(v)
            /\ \A v \in FlowVals, p \in SaleVals :
                 (RawIs(rec, COL_YEAR_5_CF, v) /\ RawIs(rec, COL_SALE_PROCEEDS, p))
                     => cf[6] = IntNum(v + p)

\* A raw equity of -200 (already negative) with a first-year outflow and a
\* sale: the vector starts at -200 and only its last entry holds the sale.
C13_Witness ==
    /\ rec_out.done
    /\ RawIs(rec, COL_EQUITY_INVESTMENT, -200)
    /\ RawIs(rec, COL_SALE_PROCEEDS, 201)
    /\ rec_out.cashflows = Floats(<<-200, -1, 1, 0, 1, 202>>)

\* C14: spread is present if and only if yield_on_cost is present
\* (total_project_cost > 0) and market_cap_rate > 0, and its value is then
\* yield_on_cost minus market_cap_rate; it is absent whenever yield_on_cost
\* is absent, whatever market_cap_rate is.
C14_SpreadPresence ==
    rec_out.done =>
        LET out == rec_out.column_values
        IN  /\ COL_YIELD_ON_COST \notin DOMAIN out => COL_SPREAD \notin DOMAIN out
            /\ \A n \in NoiVals, c \in CostVals, m \in MarketCapVals :
                 (/\ RawIs(rec, COL_NOI, n)
                  /\ RawIs(rec, COL_TOTAL_PROJECT_COST, c)
                  /\ RawIs(rec, COL_MARKET_CAP_RATE, m))
                 => /\ COL_YIELD_ON_COST \in DOMAIN out <=> c > 0
                    /\ COL_SPREAD \in DOMAIN out <=> (c > 0 /\ m > 0)
                    /\ COL_SPREAD \in DOMAIN out =>
                         /\ Shows(out[COL_SPREAD], n * 100 - m * c, c)
                         /\ out[COL_SPREAD].h
                              = out[COL_YIELD_ON_COST].h - m * 100

\* Income 12 on a cost of 200 against a market rate of 5: a yield of 6.00
\* and a spread of 1.00.
C14_Witness ==
    /\ rec_out.done
    /\ RawIs(rec, COL_NOI, 12) /\ RawIs(rec, COL_TOTAL_PROJECT_COST, 200)
    /\ RawIs(rec, COL_MARKET_CAP_RATE, 5)
    /\ rec_out.column_values[COL_YIELD_ON_COST] = Fixed2(600)
    /\ rec_out.column_values[COL_SPREAD] = Fixed2(100)

EquityCols == {COL_CASH_ON_CASH, COL_EQUITY_MULTIPLE}

\* The sum of the whole amounts after the first of a vector.
Inflows(cf) ==
    Amount(cf[2]) + Amount(cf[3]) + Amount(cf[4]) + Amount(cf[5]) + Amount(cf[6])

\* C15: cash_on_cash and equity_multiple are present if and only if the
\* raw equity field is non-zero, for either sign: both are quotients by the
\* magnitude |equity|, so a negative raw equity gives the same two values
\* as the positive one of equal magnitude, and an equity of 0, or an absent
\* or unparseable equity field, makes both absent.
C15_EquityMetrics ==
    rec_out.done =>
        LET out == rec_out.column_values
            cf == rec_out.cashflows
        IN  /\ \A e \in EquityVals :
                 RawIs(rec, COL_EQUITY_INVESTMENT, e) =>
                     /\ e # 0 <=> EquityCols \subseteq DOMAIN out
                     /\ e = 0 <=> EquityCols \cap DOMAIN out = {}
                     /\ e # 0 =>
                          /\ Shows(out[COL_CASH_ON_CASH],
                                   Amount(cf[2]) * 100, Abs(e))
                          /\ Shows(out[COL_EQUITY_MULTIPLE], Inflows(cf), Abs(e))
            /\ (\A e \in EquityVals : ~RawIs(rec, COL_EQUITY_INVESTMENT, e))
                 => EquityCols \cap DOMAIN out = {}

\* A raw equity of -200 with a first-year flow of 1 and nothing else: a
\* cash-on-cash of 0.50 and a multiple of 0.01 (1/200 as a double lies
\* above 0.005), as for an equity of 200.
C15_Witness ==
    /\ rec_out.done
    /\ RawIs(rec, COL_EQUITY_INVESTMENT, -200)
    /\ rec_out.cashflows = Floats(<<-200, 1, 0, 0, 0, 0>>)
    /\ rec_out.column_values[COL_CASH_ON_CASH] = Fixed2(50)
    /\ rec_out.column_values[COL_EQUITY_MULTIPLE] = Fixed2(1)

\* The raw field is one of the amounts vals and is greater than 0, or
\* is not 0.
RawPositive(item, col, vals) == \E v \in vals : v > 0 /\ RawIs(item, col, v)
RawNonZero(item, col, vals) == \E v \in vals : v # 0 /\ RawIs(item, col, v)

\* C12: a metric whose computed value is exactly zero is present, not
\* absent: an IRR that converges to the rate 0 is written as 0.00, unlike a
\* no-root IRR, which is absent, and every other metric whose precondition
\* holds and whose numerator is 0 is written as 0.00; a metric is absent
\* only when its precondition fails.
C12_ZeroIsPresent ==
    rec_out.done =>
        LET out == rec_out.column_values
            cf == rec_out.cashflows
            cost == RawPositive(rec, COL_TOTAL_PROJECT_COST, CostVals)
            mcr == RawPositive(rec, COL_MARKET_CAP_RATE, MarketCapVals)
            ecr == RawPositive(rec, COL_EXIT_CAP_RATE, ExitCapVals)
            eq == RawNonZero(rec, COL_EQUITY_INVESTMENT, EquityVals)
        IN  /\ rec_out.irr = "zero" =>
                 COL_IRR \in DOMAIN out /\ out[COL_IRR] = IrrText("zero")
            /\ rec_out.irr = "nan" <=> COL_IRR \notin DOMAIN out
            /\ (cost /\ RawIs(rec, COL_NOI, 0)) =>
                 /\ out[COL_CAP_RATE] = Fixed2(0)
                 /\ out[COL_YIELD_ON_COST] = Fixed2(0)
            /\ (cost /\ RawIs(rec, COL_LOAN_AMOUNT, 0)) =>
                 out[COL_LTV] = Fixed2(0)
            /\ (ecr /\ RawIs(rec, COL_NOI, 0)) =>
                 out[COL_REVERSION_VALUE] = Fixed2(0)
            /\ (eq /\ RawIs(rec, COL_YEAR_1_CF, 0)) =>
                 out[COL_CASH_ON_CASH] = Fixed2(0)
            /\ (eq /\ Inflows(cf) = 0) => out[COL_EQUITY_MULTIPLE] = Fixed2(0)
            /\ \A c \in OutputCols \ DOMAIN out :
                 /\ c \in CostCols => ~cost
                 /\ c = COL_SPREAD => ~(cost /\ mcr)
                 /\ c = COL_REVERSION_VALUE => ~ecr
                 /\ c \in EquityCols => ~eq
                 /\ c = COL_IRR => rec_out.irr = "nan"

\* No income on a cost of 200 and an equity of 200 exactly returned by the
\* sale: a cap rate of 0.00 and an IRR of 0.00, both in the map.
C12_Witness ==
    /\ rec_out.done
    /\ RawIs(rec, COL_NOI, 0) /\ RawIs(rec, COL_TOTAL_PROJECT_COST, 200)
    /\ rec_out.cashflows = Floats(<<-200, -1, 0, 0, 0, 201>>)
    /\ rec_out.irr = "zero"
    /\ rec_out.column_values[COL_CAP_RATE] = Fixed2(0)
    /\ rec_out.column_values[COL_IRR] = IrrText("zero")

\* ------------------------------------------------------------------------
\* Properties of the fetch
\* ------------------------------------------------------------------------
\* The response says that the scope holds no records: data missing or null,
\* no boards, no groups, or a group without items.
NoRecordsBody(body) ==
    /\ body.json
    /\ \/ body.data \in {"missing", "null"}
       \/ body.boards = <<>>
       \/ body.boards[1].groups.k = "missing"
       \/ body.boards[1].groups.l = <<>>
       \/ body.boards[1].groups.l[1].items.k = "missing"

\* C10: a fetch that succeeds with a response holding no records ends the
\* run normally, with the no-records outcome, no exception and no write.
C10_NoRecordsOutcome ==
    (response.got /\ NoRecordsBody(response.body)) =>
        /\ pc = "no_records"
        /\ items = <<>> /\ posted = <<>>

====
